---------------------------- MODULE Spec2Model ----------------------------
(***************************************************************************)
(* A model of the generic-tests attribute macro: extraction of the test    *)
(* functions of the root module (extract.rs, signature.rs, error.rs) and   *)
(* the instantiation walk over the module tree (expand.rs).                *)
(*                                                                         *)
(* A syn::Error is the sequence of its diagnostics (combine appends).      *)
(* A HashSet<Lifetime> is its set of elements together with the order in   *)
(* which this instance iterates, which the hasher's random seed decides.   *)
(***************************************************************************)
EXTENDS Integers, Sequences, FiniteSets, TLC

(***************************************************************************)
(* Bounds of the model.                                                    *)
(***************************************************************************)
\* the longest list of function items in the root module (SpecSig)
MaxFns == 2
\* the largest number of nested modules under the root (Spec)
MaxMods == 3
\* how deep the nested binder forms of a type go (SpecTypes)
MaxNest == 2

(***************************************************************************)
(* Generic helpers.                                                        *)
(***************************************************************************)
Range(s) == {s[i] : i \in DOMAIN s}
\* the element of a set of one element
Only(S) == CHOOSE x \in S : TRUE

None == [none |-> TRUE]

RECURSIVE Perms(_)
\* every order in which a hash set holding S may iterate
Perms(S) ==
    IF S = {} THEN {<<>>}
    ELSE UNION {{<<x>> \o p : p \in Perms(S \ {x})} : x \in S}

RECURSIVE SeqsUpTo(_, _)
\* the sequences over S of length at most n
SeqsUpTo(S, n) ==
    IF n = 0 THEN {<<>>}
    ELSE LET shorter == SeqsUpTo(S, n - 1)
         IN  shorter \cup {Append(s, x) : s \in {t \in shorter : Len(t) = n - 1}, x \in S}

(***************************************************************************)
(* Syntax trees.  A lifetime is its identifier; Elided stands for a        *)
(* reference type written without a lifetime (TypeReference.lifetime =     *)
(* None).                                                                  *)
(***************************************************************************)
Elided == ""
Placeholder == "_"
Static == "static"

LifetimeArg(lt) == [k |-> "lifetime", lt |-> lt]
Seg(id, args) == [k |-> "seg", id |-> id, args |-> args]
TypePath(segs) == [k |-> "path", segs |-> segs]
Named(id) == TypePath(<<Seg(id, <<>>)>>)
TypeReference(lt, elem) == [k |-> "ref", lt |-> lt, elem |-> elem]
TypeTuple(elems) == [k |-> "tuple", elems |-> elems]
\* `<qself as segs[1]>::segs[2]`: a path with a qualified self type
QPath(qself, segs) == [k |-> "qpath", qself |-> qself, segs |-> segs]

\* `for<lifetimes> fn(inputs) -> output`; no lifetimes: no binder written
TypeBareFn(lifetimes, inputs, output) ==
    [k |-> "bare_fn", lifetimes |-> lifetimes, inputs |-> inputs, output |-> output]
\* `for<lifetimes> path`, a bound of a trait object; no lifetimes: no binder
TraitBound(lifetimes, segs) == [k |-> "bound", lifetimes |-> lifetimes, segs |-> segs]
\* `dyn bound + bound`: each bound a TraitBound or a lifetime
TypeTraitObject(bounds) == [k |-> "dyn", bounds |-> bounds]
\* `(inputs) -> output`, the arguments of a path segment as in `Fn(A) -> B`
Parenthesized(inputs, output) == [k |-> "paren", inputs |-> inputs, output |-> output]

Str == Named("str")
I32 == Named("i32")
Borrowed(lt) == TypePath(<<Seg("Borrowed", <<LifetimeArg(lt)>>)>>)

\* format!("'_generic_tests_{}", n), signature.rs:224
SynthLifetime(n) ==
    CASE n = 0 -> "_generic_tests_0"
      [] n = 1 -> "_generic_tests_1"
      [] n = 2 -> "_generic_tests_2"
      [] n = 3 -> "_generic_tests_3"
      [] OTHER -> "_generic_tests_N"

\* format!("_generic_tests_Args{}", n), extract.rs:88
ArgsIdent(n) == [carrier |-> "_generic_tests_Args", n |-> n]
\* format!("_generic_tests_Ret{}", n), extract.rs:104
RetIdent(n) == [carrier |-> "_generic_tests_Ret", n |-> n]

(***************************************************************************)
(* error.rs: ErrorRecord.  error is None or Some(syn::Error); the model    *)
(* keeps the diagnostics of the error, <<>> standing for None.             *)
(***************************************************************************)
Diag(msg, at) == [msg |-> msg, at |-> at]

\* ErrorRecord::add_error and Instantiator::record_error
add_error(error, e) == IF error = <<>> THEN e ELSE error \o e

\* ErrorRecord::check
check(error) == IF error = <<>> THEN [ok |-> TRUE, err |-> <<>>]
                ELSE [ok |-> FALSE, err |-> error]

(***************************************************************************)
(* signature.rs: LifetimeCollector.  The visitor state is threaded through *)
(* the operators; each returns the new state and the rewritten node.       *)
(***************************************************************************)
Mode(m, lt) == [m |-> m, lt |-> lt]
ModeInput == Mode("Input", Elided)
ModeFail == Mode("Fail", Elided)
ModeDisabled == Mode("Disabled", Elided)
ModeOutput(lt) == Mode("Output", lt)

\* LifetimeCollector::new
NewCollector(subst_mode) ==
    [lifetimes |-> {}, subst_mode |-> subst_mode, bound_lifetimes |-> {},
     errors |-> <<>>, panicked |-> FALSE]

\* the mutant does not look at the bound lifetimes
collect_lifetime_unscoped(c, lt) ==
    IF lt \notin c.lifetimes THEN [c EXCEPT !.lifetimes = @ \cup {lt}] ELSE c

collect_lifetime(c, lt) ==
    IF lt \notin c.lifetimes /\ lt \notin c.bound_lifetimes
    THEN [c EXCEPT !.lifetimes = @ \cup {lt}]
    ELSE c

add_elided_lifetime(c) ==
    LET lt == SynthLifetime(Cardinality(c.lifetimes))
    IN  IF lt \in c.lifetimes
        THEN [c |-> [c EXCEPT !.panicked = TRUE], lt |-> lt]
        ELSE [c |-> [c EXCEPT !.lifetimes = @ \cup {lt}], lt |-> lt]

\* the mutant names a placeholder in Input mode as if it were elided
subst_placeholder_lifetime_named(c, placeholder) ==
    CASE c.subst_mode.m = "Disabled" -> [c |-> c, lt |-> placeholder]
      [] c.subst_mode.m = "Output" ->
            [c |-> collect_lifetime(c, c.subst_mode.lt), lt |-> c.subst_mode.lt]
      [] c.subst_mode.m = "Input" -> add_elided_lifetime(c)
      [] OTHER ->
            [c |-> [c EXCEPT !.errors =
                        add_error(@, <<Diag("lifetime needs to be disambiguated",
                                            placeholder)>>)],
             lt |-> placeholder]

subst_placeholder_lifetime(c, placeholder) ==
    CASE c.subst_mode.m = "Disabled" -> [c |-> c, lt |-> placeholder]
      [] c.subst_mode.m = "Output" ->
            [c |-> collect_lifetime(c, c.subst_mode.lt), lt |-> c.subst_mode.lt]
      [] OTHER ->
            [c |-> [c EXCEPT !.errors =
                        add_error(@, <<Diag("lifetime needs to be disambiguated",
                                            placeholder)>>)],
             lt |-> placeholder]

visit_lifetime_mut(c, lt) ==
    IF lt = Static THEN [c |-> c, lt |-> lt]
    ELSE IF lt = Placeholder THEN subst_placeholder_lifetime(c, lt)
    ELSE [c |-> collect_lifetime(c, lt), lt |-> lt]

RECURSIVE visit_node(_, _)
RECURSIVE visit_nodes(_, _)

\* the result of a visit: the collector and the node as rewritten
Visited(c, node) == [c |-> c, node |-> node]
AsLifetimeArg(r) == Visited(r.c, LifetimeArg(r.lt))
AsSeg(id, r) == Visited(r.c, Seg(id, r.node))
AsTypePath(r) == Visited(r.c, TypePath(r.node))
AsTypeTuple(r) == Visited(r.c, TypeTuple(r.node))
AsQPath(r) == Visited(r.c, QPath(Head(r.node), Tail(r.node)))
AsTypeReference(lt, r) == Visited(r.c, TypeReference(lt, r.node))
Prepend(node, r) == Visited(r.c, <<node>> \o r.node)

\* the rest of visit_type_reference_mut, once the lifetime r.lt of the
\* reference is settled: the walk into the referenced type (signature.rs:299)
visit_ref_elem(r, elem) == AsTypeReference(r.lt, visit_node(r.c, elem))

visit_type_reference_mut(c, ref_type) ==
    IF ref_type.lt # Elided
    THEN visit_ref_elem(visit_lifetime_mut(c, ref_type.lt), ref_type.elem)
    ELSE CASE c.subst_mode.m = "Disabled" ->
                visit_ref_elem([c |-> c, lt |-> Elided], ref_type.elem)
           [] c.subst_mode.m = "Input" ->
                visit_ref_elem(add_elided_lifetime(c), ref_type.elem)
           [] c.subst_mode.m = "Output" ->
                visit_ref_elem([c |-> collect_lifetime(c, c.subst_mode.lt),
                                lt |-> c.subst_mode.lt], ref_type.elem)
           [] OTHER ->
                Visited([c EXCEPT !.errors =
                            add_error(@, <<Diag("elided reference lifetime needs to be disambiguated",
                                                Elided)>>)],
                        ref_type)

\* the mutant goes on in the mode it has
suppress_nothing(c) == c

\* LifetimeInferenceSuppression (signature.rs:328-352).  new: the mode
\* becomes Disabled
suppress(c) == [c EXCEPT !.subst_mode = ModeDisabled]

\* the mutant leaves the mode the walk inside the form ended with
resume_inner(outer, r) == r

\* drop: the mode becomes the one of the collector `outer` the form was
\* entered with
resume(outer, r) == Visited([r.c EXCEPT !.subst_mode = outer.subst_mode], r.node)

\* LifetimeBindingScope (signature.rs:354-391).  new: with a binder, its
\* lifetimes are added to the bound ones
bind(c, lifetimes) ==
    IF lifetimes = <<>> THEN c
    ELSE [c EXCEPT !.bound_lifetimes = @ \cup Range(lifetimes)]

\* drop: with a binder, the bound lifetimes become those of the collector
\* `outer` the form was entered with
unbind(outer, lifetimes, r) ==
    IF lifetimes = <<>> THEN r
    ELSE Visited([r.c EXCEPT !.bound_lifetimes = outer.bound_lifetimes], r.node)

\* the lifetimes of a binder, the inputs and the output as the nodes syn's
\* default walk visits, in its order
BinderNodes(lifetimes) == [i \in DOMAIN lifetimes |-> LifetimeArg(lifetimes[i])]
OutputNodes(output) == IF output = None THEN <<>> ELSE <<output>>

\* the form with the inputs and the output as the walk left them
AsInputs(form, nodes) == SubSeq(nodes, 1, Len(form.inputs))
AsOutput(form, nodes) == IF form.output = None THEN None ELSE nodes[Len(nodes)]
AsTypeBareFn(fn_type, r) ==
    Visited(r.c, TypeBareFn(fn_type.lifetimes,
                            AsInputs(fn_type, SubSeq(r.node, Len(fn_type.lifetimes) + 1,
                                                     Len(r.node))),
                            AsOutput(fn_type, r.node)))
AsParenthesized(args, r) ==
    Visited(r.c, Parenthesized(AsInputs(args, r.node), AsOutput(args, r.node)))
AsTraitBound(bound, r) ==
    Visited(r.c, TraitBound(bound.lifetimes,
                            SubSeq(r.node, Len(bound.lifetimes) + 1, Len(r.node))))
AsTypeTraitObject(r) == Visited(r.c, TypeTraitObject(r.node))

\* signature.rs:302-309: both guards, the default walk, the guards dropped
visit_type_bare_fn_mut(c, fn_type) ==
    Only({resume(c, unbind(c, fn_type.lifetimes, AsTypeBareFn(fn_type, inside))) :
            inside \in {visit_nodes(bind(suppress(c), fn_type.lifetimes),
                                    BinderNodes(fn_type.lifetimes) \o fn_type.inputs
                                    \o OutputNodes(fn_type.output))}})

\* signature.rs:311-315: the binding scope alone
visit_trait_bound_mut(c, bound) ==
    Only({unbind(c, bound.lifetimes, AsTraitBound(bound, inside)) :
            inside \in {visit_nodes(bind(c, bound.lifetimes),
                                    BinderNodes(bound.lifetimes) \o bound.segs)}})

\* signature.rs:317-325: the suppression alone
visit_parenthesized_generic_arguments_mut(c, args) ==
    Only({resume(c, AsParenthesized(args, inside)) :
            inside \in {visit_nodes(suppress(c),
                                    args.inputs \o OutputNodes(args.output))}})

\* syn's visit_mut walk, dispatching on the kind of the node: a type, a path
\* segment or a generic argument
visit_node(c, node) ==
    CASE node.k = "ref" -> visit_type_reference_mut(c, node)
      [] node.k = "path" -> AsTypePath(visit_nodes(c, node.segs))
      [] node.k = "seg" -> AsSeg(node.id, visit_nodes(c, node.args))
      [] node.k = "tuple" -> AsTypeTuple(visit_nodes(c, node.elems))
      [] node.k = "qpath" -> AsQPath(visit_nodes(c, <<node.qself>> \o node.segs))
      [] node.k = "lifetime" -> AsLifetimeArg(visit_lifetime_mut(c, node.lt))
      [] node.k = "bare_fn" -> visit_type_bare_fn_mut(c, node)
      [] node.k = "bound" -> visit_trait_bound_mut(c, node)
      [] node.k = "dyn" -> AsTypeTraitObject(visit_nodes(c, node.bounds))
      [] node.k = "paren" -> visit_parenthesized_generic_arguments_mut(c, node)

\* the nodes after the first, visited with the collector the first one left
visit_rest(first, rest) ==
    Only({Prepend(head.node, visit_nodes(head.c, rest)) : head \in {first}})

\* the nodes of a list, left to right
visit_nodes(c, nodes) ==
    IF nodes = <<>> THEN Visited(c, <<>>)
    ELSE visit_rest(visit_node(c, Head(nodes)), Tail(nodes))

\* VisitMut::visit_type_mut of the collector
visit_type_mut(c, ty) == visit_node(c, ty)

\* LifetimeCollector::validate
validate_collector(c) ==
    [ok |-> check(c.errors).ok, err |-> check(c.errors).err, lifetimes |-> c.lifetimes]

(***************************************************************************)
(* Function items.  An attribute is compared by its path only.  A generic  *)
(* parameter is a lifetime, a type or a const parameter.                   *)
(***************************************************************************)
\* syn::Attribute as the Meta it parses to: `#[path]`, `#[path = arg]`,
\* `#[path(arg)]` with opaque tokens, or `#[path(nested, ...)]`
Attr(path) == [k |-> "path", path |-> path, arg |-> "", nested |-> <<>>]
AttrNameValue(path, arg) == [k |-> "namevalue", path |-> path, arg |-> arg, nested |-> <<>>]
AttrTokens(path, arg) == [k |-> "list", path |-> path, arg |-> arg, nested |-> <<>>]
MetaList(path, nested) == [k |-> "list", path |-> path, arg |-> "", nested |-> nested]
MetaPaths(paths) == [i \in DOMAIN paths |-> Attr(paths[i])]
MetaLit == [k |-> "lit", path |-> "lit", arg |-> "", nested |-> <<>>]
GenericParam(kind, name) == [kind |-> kind, name |-> name, bounds |-> <<>>]
\* a typed argument whose pattern is a plain identifier
FnArg(ident, mutability, ty) ==
    [pat |-> "ident", ident |-> ident, mutability |-> mutability, by_ref |-> FALSE,
     subpat |-> FALSE, pat_attrs |-> <<>>, attrs |-> <<>>, ty |-> ty]
\* a typed argument whose pattern is `_`
WildArg(ty) ==
    [pat |-> "wild", ident |-> "_", mutability |-> FALSE, by_ref |-> FALSE,
     subpat |-> FALSE, pat_attrs |-> <<>>, attrs |-> <<>>, ty |-> ty]

ItemFn(ident, attrs, generics, inputs, output) ==
    [ident |-> ident, attrs |-> attrs, constness |-> FALSE, abi |-> FALSE,
     variadic |-> FALSE, asyncness |-> FALSE, unsafety |-> FALSE,
     generics |-> generics, where_lifetimes |-> <<>>,
     inputs |-> inputs, output |-> output]

(***************************************************************************)
(* options.rs: the attribute sets.                                         *)
(***************************************************************************)
DEFAULT_TEST_ATTRS == {"test", "ignore", "should_panic", "bench"}
DEFAULT_COPIED_ATTRS == {"cfg"}

\* MacroOpts::default
DefaultMacroOpts == [inst_attrs |-> DEFAULT_TEST_ATTRS, copy_attrs |-> DEFAULT_COPIED_ATTRS]
\* Option<HashSet<Path>>: None, and Some(set)
NoSet == [some |-> FALSE, set |-> {}]
SomeSet(set) == [some |-> TRUE, set |-> set]
\* TestFnOpts::default
DefaultTestFnOpts == [inst_attrs |-> NoSet, copy_attrs |-> NoSet]

\* the per-function set merged with the unit's instead of replacing it
is_test_attr_merged(attr, macro_opts, fn_opts) ==
    \/ fn_opts.inst_attrs.some /\ attr.path \in fn_opts.inst_attrs.set
    \/ attr.path \in macro_opts.inst_attrs
is_test_attr(attr, macro_opts, fn_opts) ==
    IF fn_opts.inst_attrs.some THEN attr.path \in fn_opts.inst_attrs.set
    ELSE attr.path \in macro_opts.inst_attrs

is_copied_attr(attr, macro_opts, fn_opts) ==
    IF fn_opts.copy_attrs.some THEN attr.path \in fn_opts.copy_attrs.set
    ELSE attr.path \in macro_opts.copy_attrs

OPTS_ERROR_MSG == "unexpected attribute input; use attrs(), copy_attrs()"

RECURSIVE populate_paths(_, _)
\* the loop of populate_from_attrs_list over list.nested
populate_paths(nested, set) ==
    IF nested = <<>> THEN [ok |-> TRUE, set |-> SomeSet(set), err |-> <<>>]
    ELSE IF Head(nested).k = "path"
    THEN populate_paths(Tail(nested), set \cup {Head(nested).path})
    ELSE [ok |-> FALSE, set |-> SomeSet(set),
          err |-> <<Diag("the attribute list can only contain paths", Head(nested).path)>>]

\* the set is created when it is None, and the paths are inserted into it
populate_from_attrs_list(list, customized_set) ==
    populate_paths(list.nested, customized_set.set)

\* Ok with the two optional sets, or Err(err)
OptsResult(ok, inst_attrs, copy_attrs, err) ==
    [ok |-> ok, inst_attrs |-> inst_attrs, copy_attrs |-> copy_attrs, err |-> err]

RECURSIVE apply_nested(_, _, _)
RECURSIVE apply_populated(_, _, _, _)
\* the `?` after populate_from_attrs_list: p is what it returned for the set
\* named by is_inst, other is the other set
apply_populated(rest, other, is_inst, p) ==
    IF ~p.ok THEN OptsResult(FALSE, NoSet, NoSet, p.err)
    ELSE IF is_inst THEN apply_nested(rest, p.set, other)
    ELSE apply_nested(rest, other, p.set)

\* the `for nested_meta in args` loop of from_args and of apply_attr
apply_nested(args, inst_attrs, copy_attrs) ==
    IF args = <<>> THEN OptsResult(TRUE, inst_attrs, copy_attrs, <<>>)
    ELSE IF Head(args).k = "list" /\ Head(args).path = "attrs"
    THEN apply_populated(Tail(args), copy_attrs, TRUE,
                         populate_from_attrs_list(Head(args), inst_attrs))
    ELSE IF Head(args).k = "list" /\ Head(args).path = "copy_attrs"
    THEN apply_populated(Tail(args), inst_attrs, FALSE,
                         populate_from_attrs_list(Head(args), copy_attrs))
    ELSE OptsResult(FALSE, NoSet, NoSet, <<Diag(OPTS_ERROR_MSG, Head(args).path)>>)

\* the end of from_args: unwrap_or_else of the two sets
effective(r) ==
    [ok |-> r.ok, err |-> r.err,
     opts |-> [inst_attrs |-> IF r.inst_attrs.some THEN r.inst_attrs.set
                              ELSE DEFAULT_TEST_ATTRS,
               copy_attrs |-> IF r.copy_attrs.some THEN r.copy_attrs.set
                              ELSE DEFAULT_COPIED_ATTRS]]

\* MacroOpts::from_args
from_args(args) ==
    IF args = <<>> THEN [ok |-> TRUE, err |-> <<>>, opts |-> DefaultMacroOpts]
    ELSE effective(apply_nested(args, NoSet, NoSet))

\* TestFnOpts::apply_attr, on self
apply_attr(self, attr_meta) ==
    CASE attr_meta.k = "path" ->
            OptsResult(FALSE, NoSet, NoSet,
                       <<Diag("attribute must have arguments; use attrs(), copy_attrs()",
                              attr_meta.path)>>)
      [] attr_meta.k = "list" ->
            apply_nested(attr_meta.nested, self.inst_attrs, self.copy_attrs)
      [] OTHER -> OptsResult(FALSE, NoSet, NoSet, <<Diag(OPTS_ERROR_MSG, attr_meta.path)>>)

(***************************************************************************)
(* The per-function override.  The code that finds `generic_test` on a     *)
(* function is not in the sources; it is modelled from the documentation   *)
(* of `define` and from the specification: the attribute is applied to the *)
(* function's TestFnOpts and is stripped from the function.                *)
(***************************************************************************)
is_override(attr) == attr.path = "generic_test"
is_ordinary(attr) == ~is_override(attr)

RECURSIVE apply_overrides(_, _)
\* attrs are the override attributes of the function, r the options so far
apply_overrides(attrs, r) ==
    IF attrs = <<>> \/ ~r.ok THEN r
    ELSE apply_overrides(Tail(attrs), apply_attr(r, Head(attrs)))

fn_opts(item) ==
    apply_overrides(SelectSeq(item.attrs, is_override),
                    OptsResult(TRUE, NoSet, NoSet, <<>>))

(***************************************************************************)
(* extract.rs: extract_test_attrs.  Returns the attributes left on the     *)
(* item and the attributes of the test case.                               *)
(***************************************************************************)
\* the loops of extract_test_attrs over attrs, under the function's options
classified(opts, attrs, o) ==
    LET IsTest(a) == is_test_attr(a, opts, o)
        IsKept(a) == ~IsTest(a)
        IsCopied(a) == is_copied_attr(a, opts, o)
        removed == SelectSeq(attrs, IsTest)
        kept == SelectSeq(attrs, IsKept)
    IN  [attrs |-> kept, err |-> o.err,
         test_attrs |-> IF removed # <<>> THEN removed \o SelectSeq(kept, IsCopied)
                        ELSE removed]

\* the markers are replicated and also left on the item
extract_test_attrs_kept(opts, item) ==
    [classified(opts, SelectSeq(item.attrs, is_ordinary), fn_opts(item))
     EXCEPT !.attrs = SelectSeq(item.attrs, is_ordinary)]
extract_test_attrs(opts, item) ==
    classified(opts, SelectSeq(item.attrs, is_ordinary), fn_opts(item))

(***************************************************************************)
(* signature.rs: GenericParamCatcher and validate.                         *)
(***************************************************************************)
ERROR_MSG == "use of generic parameters in test function signatures is not supported"

\* GenericParamCatcher::new
generic_params(generics) ==
    {generics[i].name : i \in {j \in DOMAIN generics : generics[j].kind # "lifetime"}}

RECURSIVE catch_type(_, _)
RECURSIVE catch_types(_, _)
RECURSIVE catch_segments(_, _)

\* the types among a list of generic arguments or tuple elements
catch_types(params, nodes) ==
    IF nodes = <<>> THEN <<>>
    ELSE (IF Head(nodes).k = "lifetime" THEN <<>> ELSE catch_type(params, Head(nodes)))
         \o catch_types(params, Tail(nodes))

catch_segments(params, segs) ==
    IF segs = <<>> THEN <<>>
    ELSE catch_types(params, Head(segs).args) \o catch_segments(params, Tail(segs))

\* GenericParamCatcher::visit_path
catch_path(params, segs) ==
    IF Len(segs) = 1 /\ segs[1].args = <<>>
    THEN IF segs[1].id \in params THEN <<Diag(ERROR_MSG, segs[1].id)>> ELSE <<>>
    ELSE IF Len(segs) = 2 /\ segs[1].args = <<>> /\ segs[2].args = <<>>
    THEN IF segs[1].id \in params THEN <<Diag(ERROR_MSG, segs[1].id)>> ELSE <<>>
    ELSE catch_segments(params, segs)

\* the catcher's walk over one type; the errors it adds, in order
catch_type(params, ty) ==
    CASE ty.k = "path" -> catch_path(params, ty.segs)
      [] ty.k = "ref" -> catch_type(params, ty.elem)
      [] ty.k = "tuple" -> catch_types(params, ty.elems)
      \* visit_type_path with a qself: visit_qself only
      [] ty.k = "qpath" -> catch_type(params, ty.qself)

RECURSIVE catch_inputs(_, _)
catch_inputs(params, inputs) ==
    IF inputs = <<>> THEN <<>>
    ELSE (IF Head(inputs).pat = "receiver" THEN <<>>
          ELSE catch_type(params, Head(inputs).ty))
         \o catch_inputs(params, Tail(inputs))

\* fn validate(sig): <<>> is Ok(())
validate(sig) ==
    IF sig.constness THEN <<Diag("generic test function cannot be const", sig.ident)>>
    ELSE IF sig.abi
    THEN <<Diag("extern ABI is not supported in a generic test function", sig.ident)>>
    ELSE IF sig.variadic
    THEN <<Diag("variadic arguments are not supported in a generic test function", sig.ident)>>
    ELSE LET params == generic_params(sig.generics)
             errors == catch_inputs(params, sig.inputs)
                       \o (IF sig.output = None THEN <<>>
                           ELSE catch_type(params, sig.output))
         IN  check(errors).err

(***************************************************************************)
(* signature.rs: the signature builders.  A TestSignatureItem keeps the    *)
(* set of lifetimes and iter, the order in which its HashSet iterates.     *)
(***************************************************************************)
TestSignatureItem(lifetimes, iter) == [lifetimes |-> lifetimes, iter |-> iter]

\* TestFnArg::to_fn_arg: `#(#attrs)* #ident: #ty`, of the type as written
to_fn_arg(arg) == [FnArg(arg.ident, FALSE, arg.arg_ty) EXCEPT !.attrs = arg.attrs]

\* TestSignatureItem::lifetime_generics: the list <'l1, 'l2, ...>
lifetime_generics(item) == item.iter

\* the segment lists the lifetimes in an order of its own
path_segment_own_order(item, name) ==
    IF item.lifetimes = {} THEN Seg(name, <<>>)
    ELSE Seg(name, [i \in DOMAIN item.iter |->
                       LifetimeArg(item.iter[Len(item.iter) + 1 - i])])
\* TestSignatureItem::path_segment: name, or name<'l1, 'l2, ...>
path_segment(item, name) ==
    IF item.lifetimes = {} THEN Seg(name, <<>>)
    ELSE Seg(name, [i \in DOMAIN item.iter |-> LifetimeArg(item.iter[i])])

RECURSIVE build_args(_, _)

ArgsError(c, msg, at) ==
    [ok |-> FALSE, c |-> c, args |-> <<>>, err |-> <<Diag(msg, at)>>]

\* signature.rs:120-128: the TestFnArg of an argument, v being the visit of
\* its type, put before the arguments that follow it
build_rest(input, v, rest) ==
    [rest EXCEPT !.args = <<[attrs |-> input.attrs, ident |-> input.ident,
                             arg_ty |-> input.ty, field_ty |-> v.node]>> \o @]
build_next(input, v, inputs) == build_rest(input, v, build_args(v.c, inputs))

\* the map-and-collect of TestInputSignature::try_build: the arguments are
\* taken in order and the first bad pattern ends the iteration
build_args(c, inputs) ==
    IF inputs = <<>> THEN [ok |-> TRUE, err |-> <<>>, c |-> c, args |-> <<>>]
    ELSE CASE Head(inputs).pat = "receiver" ->
                ArgsError(c, "unexpected receiver argument in a test function",
                          Head(inputs).ident)
           [] Head(inputs).pat = "wild" ->
                ArgsError(c, "wildcard pattern not allowed in generic test function input",
                          Head(inputs).ident)
           [] Head(inputs).pat = "ident" ->
                IF Head(inputs).by_ref \/ Head(inputs).subpat
                   \/ Head(inputs).pat_attrs # <<>>
                THEN ArgsError(c, "unsupported features in an argument pattern",
                               Head(inputs).ident)
                ELSE build_next(Head(inputs), visit_type_mut(c, Head(inputs).ty),
                                Tail(inputs))
           [] OTHER ->
                ArgsError(c, "unsupported argument pattern in generic test function input",
                          Head(inputs).ident)

\* signature.rs:144-149: b is what the map-and-collect gave
input_signature(ident, b) ==
    IF ~b.ok THEN [ok |-> FALSE, err |-> b.err, panicked |-> b.c.panicked]
    ELSE IF ~validate_collector(b.c).ok
    THEN [ok |-> FALSE, err |-> validate_collector(b.c).err, panicked |-> b.c.panicked]
    ELSE [ok |-> TRUE, err |-> <<>>, panicked |-> b.c.panicked, ident |-> ident,
          lifetimes |-> validate_collector(b.c).lifetimes, args |-> b.args]

\* TestInputSignature::try_build; the caller chooses the iteration order
TestInputSignature_try_build(ident, inputs) ==
    input_signature(ident, build_args(NewCollector(ModeInput), inputs))

\* the mutant takes the first lifetime the iteration gives, however many follow
return_subst_mode_first(iter) ==
    IF iter = <<>> THEN ModeFail ELSE ModeOutput(Head(iter))

\* the substitution mode TestReturnSignature::try_build chooses; iter is the
\* iteration of the input lifetimes, <<>> when there is no input signature
return_subst_mode(iter) ==
    IF iter = <<>> THEN ModeFail
    ELSE IF Len(Tail(iter)) = 0 THEN ModeOutput(Head(iter))
    ELSE ModeFail

\* signature.rs:182-186: r is the visit of the return type
return_signature(ident, r) ==
    IF ~validate_collector(r.c).ok
    THEN [ok |-> FALSE, err |-> validate_collector(r.c).err]
    ELSE [ok |-> TRUE, err |-> <<>>, ident |-> ident,
          lifetimes |-> validate_collector(r.c).lifetimes, ty |-> r.node]

\* TestReturnSignature::try_build
TestReturnSignature_try_build(ident, ty, input_iter) ==
    return_signature(ident, visit_type_mut(NewCollector(return_subst_mode(input_iter)), ty))

(***************************************************************************)
(* extract.rs: generic_arity, filter_lifetime_params.                      *)
(***************************************************************************)
\* the mutant counts the lifetime parameters too
generic_arity_all(generics) == Len(generics)

\* generic_arity: the type and const parameters of the function
generic_arity(generics) ==
    Cardinality({i \in DOMAIN generics : generics[i].kind \in {"type", "const"}})

filter_lifetime_params(generics, where_lifetimes, lifetimes_used) ==
    LET BadWhere(p) == p.lifetime \in lifetimes_used /\ p.bounds # <<>>
        IsUsed(g) == g.kind = "lifetime" /\ g.name \in lifetimes_used
        BadDef(g) == IsUsed(g) /\ g.bounds # <<>>
        used == SelectSeq(generics, IsUsed)
        msg == "lifetime bounds are not supported in generic test functions"
    IN  IF SelectSeq(where_lifetimes, BadWhere) # <<>>
        THEN [ok |-> FALSE, params |-> <<>>,
              err |-> <<Diag(msg, Head(SelectSeq(where_lifetimes, BadWhere)).lifetime)>>]
        ELSE IF SelectSeq(generics, BadDef) # <<>>
        THEN [ok |-> FALSE, params |-> <<>>,
              err |-> <<Diag(msg, Head(SelectSeq(generics, BadDef)).name)>>]
        ELSE [ok |-> TRUE, err |-> <<>>,
              params |-> [i \in DOMAIN used |-> used[i].name]]

(***************************************************************************)
(* extract.rs: Tests.  The two hash maps are functions from the key as     *)
(* written (the argument list, the return type) to the signature.          *)
(***************************************************************************)
EmptyMap == [key \in {} |-> None]

\* Tests::default
DefaultTests == [test_fns |-> <<>>, input_sigs |-> EmptyMap, return_sigs |-> EmptyMap]

\* what a stage of try_extract_fn gives: the lifetimes of the signature and,
\* when it was built in this call, the signature
Stage(sig) ==
    IF sig.ok THEN [ok |-> TRUE, built |-> TRUE, lifetimes |-> sig.lifetimes, sig |-> sig]
    ELSE [ok |-> FALSE, built |-> FALSE, lifetimes |-> {}, err |-> sig.err]
Found(lifetimes) == [ok |-> TRUE, built |-> FALSE, lifetimes |-> lifetimes]

\* extract.rs:82-95: the input signature of the function, looked up by the
\* argument list as written, or built
input_stage(input_sigs, inputs) ==
    IF inputs = <<>> THEN Found({})
    ELSE IF inputs \in DOMAIN input_sigs THEN Found(input_sigs[inputs].item.lifetimes)
    ELSE Stage(TestInputSignature_try_build(ArgsIdent(Cardinality(DOMAIN input_sigs)),
                                            inputs))

\* extract.rs:107-111: the iteration of the input lifetimes handed to
\* TestReturnSignature::try_build, <<>> standing for None
input_lifetimes(input_sigs, inputs) ==
    IF inputs = <<>> THEN <<>>
    ELSE IF inputs \in DOMAIN input_sigs THEN input_sigs[inputs].item.iter
    ELSE <<>>

\* extract.rs:96-117: the return signature of the function, looked up by the
\* return type as written, or built from the input signature's lifetimes
return_stage(return_sigs, input_sigs, inputs, output) ==
    IF output = None THEN Found({})
    ELSE IF output \in DOMAIN return_sigs THEN Found(return_sigs[output].item.lifetimes)
    ELSE Stage(TestReturnSignature_try_build(RetIdent(Cardinality(DOMAIN return_sigs)),
                                             output, input_lifetimes(input_sigs, inputs)))

\* the hash map with the signature a stage built, whose HashSet of lifetimes
\* iterates in the given order
insert_input(input_sigs, inputs, i, order) ==
    IF i.ok /\ i.built
    THEN input_sigs @@ (inputs :> [ident |-> i.sig.ident,
                                   item |-> TestSignatureItem(i.sig.lifetimes, order),
                                   args |-> i.sig.args])
    ELSE input_sigs
insert_return(return_sigs, output, o, order) ==
    IF o.ok /\ o.built
    THEN return_sigs @@ (output :> [ident |-> o.sig.ident,
                                    item |-> TestSignatureItem(o.sig.lifetimes, order),
                                    ty |-> o.sig.ty])
    ELSE return_sigs

\* what try_extract_fn returns: kind is "skip" for Ok(false), "ok" for
\* Ok(true), "err" for Err(err); attrs are the attributes left on the item
Extracted(kind, err, a, tests) == [kind |-> kind, err |-> err, attrs |-> a.attrs, tests |-> tests]

\* extract.rs:118-129: f is what filter_lifetime_params gave
push_test_fn(tests, item, a, input_sigs1, return_sigs1, f) ==
    IF ~f.ok
    THEN Extracted("err", f.err, a,
                   [tests EXCEPT !.input_sigs = input_sigs1, !.return_sigs = return_sigs1])
    ELSE Extracted("ok", <<>>, a,
                   [test_fns |-> Append(tests.test_fns,
                                    [test_attrs |-> a.test_attrs,
                                     asyncness |-> item.asyncness,
                                     unsafety |-> item.unsafety,
                                     ident |-> item.ident,
                                     lifetime_params |-> f.params,
                                     inputs |-> item.inputs,
                                     output |-> item.output]),
                    input_sigs |-> input_sigs1,
                    return_sigs |-> return_sigs1])

\* extract.rs:96-118: o is the return stage
extract_return(tests, item, a, i, input_sigs1, o, order_ret) ==
    IF ~o.ok THEN Extracted("err", o.err, a, [tests EXCEPT !.input_sigs = input_sigs1])
    ELSE push_test_fn(tests, item, a, input_sigs1,
                      insert_return(tests.return_sigs, item.output, o, order_ret),
                      filter_lifetime_params(item.generics, item.where_lifetimes,
                                             i.lifetimes \cup o.lifetimes))

\* extract.rs:93-96: input_sigs1 is the map after the input stage
extract_output(tests, item, a, i, input_sigs1, order_ret) ==
    extract_return(tests, item, a, i, input_sigs1,
                   return_stage(tests.return_sigs, input_sigs1, item.inputs, item.output),
                   order_ret)

\* extract.rs:81-95: i is the input stage
extract_input(tests, item, a, i, order_in, order_ret) ==
    IF ~i.ok THEN Extracted("err", i.err, a, tests)
    ELSE extract_output(tests, item, a, i,
                        insert_input(tests.input_sigs, item.inputs, i, order_in),
                        order_ret)

\* extract.rs:80-81: v is what validate gave
extract_validated(tests, item, a, v, order_in, order_ret) ==
    IF v # <<>> THEN Extracted("err", v, a, tests)
    ELSE extract_input(tests, item, a, input_stage(tests.input_sigs, item.inputs),
                       order_in, order_ret)

\* every function is taken for a test case
extract_classified_all(tests, item, a, order_in, order_ret) ==
    extract_validated(tests, item, a, validate(item), order_in, order_ret)
\* extract.rs:76-80: a is what extract_test_attrs gave
extract_classified(tests, item, a, order_in, order_ret) ==
    IF a.err # <<>> THEN Extracted("err", a.err, a, tests)
    ELSE IF a.test_attrs = <<>> THEN Extracted("skip", <<>>, a, tests)
    ELSE extract_validated(tests, item, a, validate(item), order_in, order_ret)

\* Tests::try_extract_fn.  order_in and order_ret are the iteration orders
\* of the lifetime sets of the signatures this call builds.
try_extract_fn(tests, opts, item, order_in, order_ret) ==
    extract_classified(tests, item, extract_test_attrs(opts, item), order_in, order_ret)

\* the lifetime sets of the signatures try_extract_fn builds for the item
\* (empty when it builds none): the hash sets whose order is to be chosen
BuiltLifetimes(stage) == IF stage.ok /\ stage.built THEN stage.lifetimes ELSE {}
BuiltInputLifetimes(tests, item) ==
    BuiltLifetimes(input_stage(tests.input_sigs, item.inputs))
BuiltReturnLifetimes(tests, item, order_in) ==
    BuiltLifetimes(
        return_stage(tests.return_sigs,
                     insert_input(tests.input_sigs, item.inputs,
                                  input_stage(tests.input_sigs, item.inputs), order_in),
                     item.inputs, item.output))

\* the error of the arity check, extract.rs:58-66
ArityError(ident, fn_generic_arity, n) ==
    <<[msg |-> "test function has a different number of generic parameters",
       at |-> ident, has |-> fn_generic_arity, others |-> n]>>

(***************************************************************************)
(* The module tree.  A module carries at most one instantiate_tests        *)
(* attribute: attr is "none", "outer" (well formed), "inner" (written as   *)
(* an inner attribute) or "unparsable" (its arguments do not parse).       *)
(* inline = FALSE is `mod name;`, whose content is None.                   *)
(***************************************************************************)
Mod(attr, inline, items) ==
    [k |-> "mod", attr |-> attr, inline |-> inline, args |-> "String", items |-> items]
\* an item that is neither a module nor a function
Other == [k |-> "other"]

RECURSIVE ItemsAt(_, _)
\* the items of the module at path under the module holding items
ItemsAt(items, path) ==
    IF path = <<>> THEN items
    ELSE ItemsAt(items[Head(path)].items, Tail(path))

RECURSIVE ReplaceAt(_, _, _)
\* items with the module at path (not empty) replaced by node
ReplaceAt(items, path, node) ==
    IF Len(path) = 1 THEN [items EXCEPT ![Head(path)] = node]
    ELSE [items EXCEPT ![Head(path)] =
             [@ EXCEPT !.items = ReplaceAt(@, Tail(path), node)]]

NodeAt(items, path) == ItemsAt(items, SubSeq(path, 1, Len(path) - 1))[path[Len(path)]]

(***************************************************************************)
(* expand.rs: InstArguments and Instantiator.                              *)
(***************************************************************************)
\* InstArguments::try_extract; on Some the attribute is removed from the
\* item.  span is where the attribute is: the path of the module it is on.
InstArguments_try_extract(item, span) ==
    CASE item.attr = "none" -> [res |-> "none", item |-> item]
      [] item.attr = "inner" ->
            [res |-> "err", item |-> item,
             err |-> <<Diag("cannot be an inner attribute", span)>>]
      [] item.attr = "unparsable" ->
            [res |-> "err", item |-> item,
             err |-> <<Diag("attribute arguments do not parse", span)>>]
      [] OTHER ->
            [res |-> "some", item |-> [item EXCEPT !.attr = "none"], args |-> item.args]

UseSuper == [k |-> "use", supers |-> 1]
UseRoot(depth) == [k |-> "use", supers |-> depth]

\* the identifiers of the arguments, TestFn::try_extract, expand.rs:64-81
fn_args(inputs) == [i \in DOMAIN inputs |-> inputs[i].ident]

\* the import of the root comes before the import of the parent
instantiate_tests_root_first(test_fns, depth, inst_args) ==
    (IF depth > 1 THEN <<UseRoot(depth)>> ELSE <<>>)
    \o <<UseSuper>>
    \o [i \in DOMAIN test_fns |->
            [k |-> "fn", attrs |-> test_fns[i].test_attrs,
             asyncness |-> FALSE, unsafety |-> FALSE, await |-> FALSE,
             name |-> test_fns[i].ident,
             inputs |-> test_fns[i].inputs, output |-> test_fns[i].output,
             call |-> [supers |-> depth, name |-> test_fns[i].ident,
                       generic_args |-> inst_args,
                       fn_args |-> fn_args(test_fns[i].inputs)]]]
\* Instantiator::instantiate_tests: the content pushed into the module
instantiate_tests(test_fns, depth, inst_args) ==
    <<UseSuper>>
    \o (IF depth > 1 THEN <<UseRoot(depth)>> ELSE <<>>)
    \o [i \in DOMAIN test_fns |->
            [k |-> "fn", attrs |-> test_fns[i].test_attrs,
             \* the quoted item is `fn`, and its body is the call
             asyncness |-> FALSE, unsafety |-> FALSE, await |-> FALSE,
             name |-> test_fns[i].ident,
             inputs |-> test_fns[i].inputs, output |-> test_fns[i].output,
             call |-> [supers |-> depth, name |-> test_fns[i].ident,
                       generic_args |-> inst_args,
                       fn_args |-> fn_args(test_fns[i].inputs)]]]

\* the match of visit_item_mod_mut: whether try_extract does not return Ok(None)
has_marker(item) == item.attr # "none"

\* the content of the module, pushed unless the module fails a check
populated_unchecked(test_fns, depth, error, r, path) ==
    [item |-> [r.item EXCEPT !.items =
                  (IF r.item.inline THEN @ ELSE <<>>)
                  \o instantiate_tests(test_fns, depth, r.args)],
     error |-> error]

\* expand.rs:213-233: r is InstArguments::try_extract on Some(args); the
\* module and the error after the arm
populated(test_fns, depth, error, r, path) ==
    IF ~r.item.inline
    THEN [item |-> r.item,
          error |-> add_error(error,
              <<Diag("module to instantiate tests into must be inline", path)>>)]
    ELSE IF r.item.items # <<>>
    THEN [item |-> r.item,
          error |-> add_error(error,
              <<Diag("module to instantiate tests into must be empty", path)>>)]
    ELSE [item |-> [r.item EXCEPT !.items = instantiate_tests(test_fns, depth, r.args)],
          error |-> error]

\* expand.rs:210-236: r is what InstArguments::try_extract returned, not Ok(None)
marked(test_fns, depth, error, r, path) ==
    IF r.res = "err" THEN [item |-> r.item, error |-> add_error(error, r.err)]
    ELSE populated(test_fns, depth, error, r, path)

\* Instantiator::visit_item_mod_mut for a module on which try_extract does
\* not return Ok(None): the module and the error after the call
visit_marked_mod(test_fns, depth, error, item, path) ==
    marked(test_fns, depth, error, InstArguments_try_extract(item, path), path)

(***************************************************************************)
(* The inputs of the model.                                                *)
(***************************************************************************)
T == GenericParam("type", "T")
U == GenericParam("type", "U")
N == GenericParam("const", "N")
LtA == GenericParam("lifetime", "a")
LtB == GenericParam("lifetime", "b")
TestAttrs == <<Attr("test")>>

\* argument lists as written
In0 == <<>>
InI32 == <<FnArg("a", FALSE, I32)>>
InMutI32 == <<FnArg("a", TRUE, I32)>>
InElided == <<FnArg("a", FALSE, TypeReference(Elided, Str))>>
InA == <<FnArg("a", FALSE, TypeReference("a", Str))>>
InAB == <<FnArg("a", FALSE, TypeReference("a", Str)),
          FnArg("b", FALSE, TypeReference("b", Str))>>
InputSamples == {In0, InI32, InElided, InA, InAB}

\* return types as written
OutputSamples ==
    {None, Borrowed(Placeholder), TypeReference(Elided, Str), Borrowed("a"),
     Borrowed(Static)}

RECURSIVE TypeLifetimes(_)
RECURSIVE NodesLifetimes(_)
\* the lifetime names written in a type
TypeLifetimes(ty) ==
    CASE ty.k = "lifetime" -> {ty.lt}
      [] ty.k = "ref" -> {ty.lt} \cup TypeLifetimes(ty.elem)
      [] ty.k = "tuple" -> NodesLifetimes(ty.elems)
      [] ty.k = "path" -> UNION {NodesLifetimes(ty.segs[i].args) : i \in DOMAIN ty.segs}
NodesLifetimes(nodes) == UNION {TypeLifetimes(nodes[i]) : i \in DOMAIN nodes}

\* the lifetime parameters a function declares for the names it writes
DeclaredLifetimes(inputs, output) ==
    LET used == UNION {TypeLifetimes(inputs[i].ty) : i \in DOMAIN inputs}
                \cup (IF output = None THEN {} ELSE TypeLifetimes(output))
    IN  (IF "a" \in used THEN <<LtA>> ELSE <<>>) \o (IF "b" \in used THEN <<LtB>> ELSE <<>>)

InputName(inputs) ==
    CASE inputs = In0 -> "unit" [] inputs = InI32 -> "i32" [] inputs = InElided -> "elided"
      [] inputs = InA -> "a" [] inputs = InAB -> "ab"
OutputName(output) ==
    CASE output = None -> "unit" [] output = Borrowed(Placeholder) -> "placeholder"
      [] output = TypeReference(Elided, Str) -> "elided" [] output = Borrowed("a") -> "a"
      [] output = Borrowed(Static) -> "static"

\* a test function with one type parameter for every pair of samples
GridFn(inputs, output) ==
    ItemFn("takes_" \o InputName(inputs) \o "_gives_" \o OutputName(output), TestAttrs,
           DeclaredLifetimes(inputs, output) \o <<T>>, inputs, output)

\* functions the extraction rejects, skips, or counts differently
MutFn == ItemFn("mut_is_erased", TestAttrs, <<T>>, InMutI32, None)
WildFn == ItemFn("wild", TestAttrs, <<T>>, <<WildArg(I32)>>, None)
LeakFn == ItemFn("leak", TestAttrs, <<T>>, <<FnArg("x", FALSE, Named("T"))>>, None)
ConstFn == [ItemFn("const_fn", TestAttrs, <<T>>, In0, None) EXCEPT !.constness = TRUE]
TwoParamsFn == ItemFn("two_params", TestAttrs, <<T, N>>, In0, None)
LifetimeParamFn == ItemFn("lifetime_param", TestAttrs, <<LtA, T>>, In0, None)
PlaceholderWildFn ==
    ItemFn("placeholder_then_wild", TestAttrs, <<T>>,
           <<FnArg("a", FALSE, TypeReference(Placeholder, Str)), WildArg(I32)>>, None)
NotATestFn == ItemFn("not_a_test_case", <<Attr("cfg"), Attr("allow")>>, <<T, U>>,
                     <<WildArg(I32)>>, None)

SigFns ==
    {GridFn(i, o) : i \in InputSamples, o \in OutputSamples}
    \cup {MutFn, WildFn, LeakFn, ConstFn, TwoParamsFn, LifetimeParamFn, PlaceholderWildFn,
          NotATestFn}

\* the test functions of the walk: a unit with default configuration
PrintFn == ItemFn("print", TestAttrs, <<T>>, In0, None)
IgnoredFn == ItemFn("ignored", <<Attr("test"), Attr("ignore")>>, <<T>>, InI32, None)
WalkFnLists ==
    {<<>>, <<PrintFn>>, <<PrintFn, NotATestFn, IgnoredFn>>, <<PrintFn, WildFn, IgnoredFn>>}

RECURSIVE Forests(_)
\* the module lists holding n modules in all, nested in every way
Forests(n) ==
    IF n = 0 THEN {<<>>}
    ELSE UNION {
           UNION {
             {<<t>> \o rest : rest \in Forests(n - m)}
             : t \in {Mod(a, TRUE, c) : a \in {"none", "outer"}, c \in Forests(m - 1)}
                     \cup (IF m = 1
                           THEN {Mod("none", FALSE, <<>>), Mod("outer", FALSE, <<>>),
                                 Mod("outer", TRUE, <<Other>>), Mod("inner", TRUE, <<>>),
                                 Mod("unparsable", TRUE, <<>>)}
                           ELSE {})}
           : m \in 1..n}

\* the module tree of SpecSig: a marked module one level down
SigMods == <<Mod("none", TRUE, <<Mod("outer", TRUE, <<>>)>>)>>

\* the order in which the items of the root module stand in its content:
\* the functions before the modules, or the modules before the functions.
\* The loop of Tests::try_extract takes the function items of the content
\* and the walk of the Instantiator its module items (extract.rs:48-49,
\* expand.rs:210), so fns and mods are the content as each of them sees it
Layout(fns, mods, mods_first) ==
    IF mods_first
    THEN [i \in DOMAIN mods |-> "mod"] \o [i \in DOMAIN fns |-> "fn"]
    ELSE [i \in DOMAIN fns |-> "fn"] \o [i \in DOMAIN mods |-> "mod"]

MacroInput(inline, fns, mods) ==
    [inline |-> inline, args |-> <<>>, opts |-> DefaultMacroOpts, fns |-> fns, mods |-> mods,
     layout |-> Layout(fns, mods, FALSE)]

\* the same items, the modules standing before the functions
ModsFirst(in) == [in EXCEPT !.layout = Layout(in.fns, in.mods, TRUE)]

\* `mod tests;`: the macro applied to a module that is not inline
NotInlineInput == MacroInput(FALSE, <<>>, <<>>)

\* the functions of SpecFns.  tests.rs, modifier_attrs and cfg_attr:
\* attributes with content, and a mirrored attribute above the marker
RichFn ==
    ItemFn("rich", <<AttrTokens("cfg", "windows"), Attr("test"),
                     AttrTokens("allow", "dead_code"), AttrNameValue("ignore", "reason")>>,
           <<T>>, In0, None)
\* the example of the documentation of `define`, with two more attributes
OverrideFn ==
    ItemFn("works_everywhere_except_windows",
           <<MetaList("generic_test",
                      <<MetaList("attrs", MetaPaths(<<"test", "cfg_attr">>)),
                        MetaList("copy_attrs", MetaPaths(<<"allow">>))>>),
             Attr("test"), AttrTokens("cfg_attr", "windows, ignore"),
             AttrTokens("allow", "dead_code"), AttrTokens("cfg", "test"), Attr("ignore")>>,
           <<T>>, In0, None)
OverrideCopyFn ==
    ItemFn("override_copy",
           <<AttrTokens("allow", "dead_code"),
             MetaList("generic_test", <<MetaList("copy_attrs", MetaPaths(<<"allow">>))>>),
             AttrTokens("cfg", "test"), Attr("test"), Attr("tokio::test")>>,
           <<T>>, In0, None)
OverrideNoneFn ==
    ItemFn("override_to_none",
           <<MetaList("generic_test", <<MetaList("attrs", MetaPaths(<<"bench">>))>>),
             Attr("test")>>,
           <<T>>, In0, None)
BadOverrideFn == ItemFn("bad_override", <<Attr("generic_test"), Attr("test")>>, <<T>>, In0, None)
\* tests/async.rs
AsyncFn ==
    [ItemFn("async_is_instantiated", <<Attr("tokio::test")>>, <<T>>, In0, None)
     EXCEPT !.asyncness = TRUE]
UnsafeFn == [ItemFn("danger", TestAttrs, <<T>>, In0, None) EXCEPT !.unsafety = TRUE]
AsyncUnsafeFn ==
    [ItemFn("async_danger", TestAttrs, <<T>>, InI32, None)
     EXCEPT !.asyncness = TRUE, !.unsafety = TRUE]
ParamAttrFn ==
    ItemFn("param_attr", TestAttrs, <<T>>,
           <<[FnArg("a", FALSE, TypeReference(Elided, Str))
              EXCEPT !.attrs = <<AttrTokens("cfg", "test")>>],
             FnArg("b", FALSE, I32)>>, None)
\* a type or const parameter of the function in the type of its argument
LeakIn(name, ty) == ItemFn(name, TestAttrs, <<LtA, T>>, <<FnArg("x", FALSE, ty)>>, None)
LeakFns ==
    {LeakIn("leak_assoc", TypePath(<<Seg("T", <<>>), Seg("Item", <<>>)>>)),
     LeakIn("leak_arg", TypePath(<<Seg("Vec", <<Named("T")>>)>>)),
     LeakIn("leak_ref_tuple", TypeReference("a", TypeTuple(<<I32, Named("T")>>))),
     LeakIn("leak_qself", QPath(Named("T"), <<Seg("Iterator", <<>>), Seg("Item", <<>>)>>)),
     LeakIn("leak_long", TypePath(<<Seg("T", <<>>), Seg("A", <<>>), Seg("B", <<>>)>>)),
     LeakIn("leak_assoc_args", TypePath(<<Seg("T", <<>>), Seg("Assoc", <<I32>>)>>)),
     LeakIn("leak_trait", QPath(I32, <<Seg("Into", <<Named("T")>>), Seg("Out", <<>>)>>)),
     LeakIn("lifetime_only", TypeReference("a", Borrowed("a"))),
     ItemFn("leak_const", TestAttrs, <<N>>,
            <<FnArg("x", FALSE, TypePath(<<Seg("Arr", <<Named("N")>>)>>))>>, None),
     ItemFn("leak_return", TestAttrs, <<T>>, In0, TypeTuple(<<Named("T")>>))}

\* tests.rs, lifetimes_in_signature: references without a lifetime, with
\* a named one and with 'static; and a function that gives a lifetime of
\* its own a name of the form the macro makes
ElidedFn == ItemFn("elided", TestAttrs, <<T>>, InElided, None)
TwoElidedFn ==
    ItemFn("two_elided", TestAttrs, <<T>>,
           <<FnArg("a", FALSE, TypeReference(Elided, Str)),
             FnArg("b", FALSE, TypeReference(Elided, Str))>>, None)
StaticFn ==
    ItemFn("static_and_named", TestAttrs, <<LtA, T>>,
           <<FnArg("a", FALSE, TypeReference(Static, Str)),
             FnArg("b", FALSE, TypeReference("a", Str)),
             FnArg("c", FALSE, TypeReference(Elided, Str))>>, None)
ReservedNameFn ==
    ItemFn("reserved_name", TestAttrs, <<GenericParam("lifetime", SynthLifetime(0)), T>>,
           <<FnArg("a", FALSE, TypeReference(Elided, Str)),
             FnArg("b", FALSE, TypeReference(SynthLifetime(0), Str))>>, None)
LifetimeFns == {ElidedFn, TwoElidedFn, StaticFn, ReservedNameFn}

FnsSamples ==
    {RichFn, OverrideFn, OverrideCopyFn, OverrideNoneFn, BadOverrideFn, AsyncFn, UnsafeFn,
     AsyncUnsafeFn, ParamAttrFn, MutFn, NotATestFn, LeakFn}
    \cup LeakFns \cup LifetimeFns
\* each function alone, after a test case and before one
FnsLists ==
    {<<>>} \cup {<<f>> : f \in FnsSamples} \cup {<<PrintFn, f>> : f \in FnsSamples}
    \cup {<<f, IgnoredFn>> : f \in FnsSamples}
    \cup {<<ElidedFn, TwoElidedFn>>}

\* the arguments of `define`
ArgsSamples ==
    {<<>>,
     <<MetaList("attrs", MetaPaths(<<"tokio::test">>))>>,
     <<MetaList("copy_attrs", MetaPaths(<<"allow">>))>>,
     <<MetaList("attrs", MetaPaths(<<"test", "allow">>)),
       MetaList("copy_attrs", MetaPaths(<<"doc">>)),
       MetaList("attrs", MetaPaths(<<"ignore">>))>>,
     <<Attr("attrs")>>,
     <<MetaList("attrs", <<MetaLit>>)>>,
     <<MetaList("copy_attrs", <<>>), MetaList("instantiate", <<>>)>>}

\* the module tree of SpecFns: markers directly under the root and deeper
FnsMods == <<Mod("outer", TRUE, <<>>), Mod("none", TRUE, <<Mod("outer", TRUE, <<>>)>>)>>

MacroInputArgs(args, fns, mods) == [MacroInput(TRUE, fns, mods) EXCEPT !.args = args]

(***************************************************************************)
(* The state.                                                              *)
(***************************************************************************)
VARIABLES
    input,                   \* the module as parsed; the macro's arguments
    fns,                     \* the function items of the root module
    mods,                    \* the module items of the root module
    pc,                      \* "extract", "walk" or "done"
    idx,                     \* Tests::try_extract: the item the loop is at
    tests,                   \* Tests
    mod_wide_generic_arity,  \* -1 is None
    depth,                   \* Instantiator.depth
    error,                   \* Instantiator.error
    stack,                   \* the modules the walk is inside of
    visited,                 \* the modules visit_item_mod_mut was called on
    result,                  \* what transform returned
    output,                  \* what expand returned
    run,                     \* 1, or 2 when the macro runs again on the input
    prev,                    \* what the first run produced
    lifetime_collector       \* a LifetimeCollector at work on a type (SpecTypes)

vars == <<input, fns, mods, pc, idx, tests, mod_wide_generic_arity, depth, error,
          stack, visited, result, output, run, prev, lifetime_collector>>

\* the collector `entered` a type `ty` with; once it is back from the type,
\* the collector `c` and the type `field_ty` it left
AtType(at, entered, ty, r) ==
    [at |-> at, entered |-> entered, ty |-> ty, c |-> r.c, field_ty |-> r.node]
\* the runs of the macro are watched from outside the collector
NotWatched == AtType("nowhere", NewCollector(ModeInput), Str,
                     Visited(NewCollector(ModeInput), Str))

Pending == [state |-> "pending", err |-> <<>>]
NoOutput == [kind |-> "none"]

\* the state in which the macro is at `at` with the input
StartAt(in, at) ==
    /\ input = in
    /\ fns = in.fns
    /\ mods = in.mods
    /\ pc = at
    /\ idx = 1
    /\ tests = DefaultTests
    /\ mod_wide_generic_arity = -1
    /\ depth = 1
    /\ error = <<>>
    /\ stack = <<>>
    /\ visited = {}
    /\ result = Pending
    /\ output = NoOutput

\* the state in which expand is entered with the input
Start(in) == StartAt(in, "extract")

Init ==
    /\ \E in \in {MacroInput(TRUE, f, m) :
                    f \in WalkFnLists, m \in UNION {Forests(n) : n \in 0..MaxMods}}
                 \cup {NotInlineInput} :
          Start(in) \/ Start(ModsFirst(in))
    /\ run = 1
    /\ prev = NoOutput
    /\ lifetime_collector = NotWatched

InitSig ==
    /\ \E in \in {MacroInput(TRUE, f, SigMods) : f \in SeqsUpTo(SigFns, MaxFns)}
                 \cup {NotInlineInput} : Start(in)
    /\ run = 1
    /\ prev = NoOutput
    /\ lifetime_collector = NotWatched

\* `define` is entered with its arguments not yet parsed
InitFns ==
    /\ \E in \in {MacroInputArgs(a, f, FnsMods) : a \in ArgsSamples, f \in FnsLists}
                 \cup {NotInlineInput} : StartAt(in, "define")
    /\ run = 1
    /\ prev = NoOutput
    /\ lifetime_collector = NotWatched

(***************************************************************************)
(* expand.rs: expand and transform.                                        *)
(***************************************************************************)
\* transform returns Err(e), and expand the compile error made of it
Fail(e) ==
    /\ pc' = "done"
    /\ result' = [state |-> "err", err |-> e]
    /\ output' = [kind |-> "compile_error", err |-> e]

\* macro.rs, define: the arguments are parsed into the options of the unit,
\* and expand is called with them unless they are in error
Define ==
    /\ pc = "define"
    /\ \E r \in {from_args(input.args)} :
          IF r.ok
          THEN /\ input' = [input EXCEPT !.opts = r.opts]
               /\ pc' = "extract"
               /\ UNCHANGED <<result, output>>
          ELSE Fail(r.err) /\ UNCHANGED input
    /\ UNCHANGED <<fns, mods, idx, tests, mod_wide_generic_arity, depth, error, stack,
                   visited, run, prev>>
    /\ UNCHANGED lifetime_collector

\* Tests::try_extract on a module without content
RootNotInline ==
    /\ pc = "extract"
    /\ ~input.inline
    /\ Fail(<<Diag("only inline modules are supported", "root")>>)
    /\ UNCHANGED <<input, fns, mods, idx, tests, mod_wide_generic_arity, depth, error,
                   stack, visited, run, prev>>
    /\ UNCHANGED lifetime_collector

\* extract.rs:50-69: the turn of the loop once try_extract_fn returned r
Extracted_then(item, r, fn_generic_arity) ==
    /\ fns' = [fns EXCEPT ![idx].attrs = r.attrs]
    /\ tests' = r.tests
    /\ mod_wide_generic_arity' =
          IF r.kind = "ok" /\ mod_wide_generic_arity = -1
          THEN fn_generic_arity ELSE mod_wide_generic_arity
    /\ IF r.kind = "err"
       THEN Fail(r.err) /\ idx' = idx
       ELSE IF r.kind = "ok" /\ mod_wide_generic_arity # -1
               /\ fn_generic_arity # mod_wide_generic_arity
       THEN /\ Fail(ArityError(item.ident, fn_generic_arity, mod_wide_generic_arity))
            /\ idx' = idx
       ELSE /\ idx' = idx + 1
            /\ UNCHANGED <<pc, result, output>>

\* one turn of the loop of Tests::try_extract, with the arity check
TryExtractItem ==
    /\ pc = "extract"
    /\ input.inline
    /\ idx <= Len(fns)
    /\ \E order_in \in Perms(BuiltInputLifetimes(tests, fns[idx])) :
       \E order_ret \in Perms(BuiltReturnLifetimes(tests, fns[idx], order_in)) :
          Extracted_then(fns[idx],
                         try_extract_fn(tests, input.opts, fns[idx], order_in, order_ret),
                         generic_arity(fns[idx].generics))
    /\ UNCHANGED <<input, mods, depth, error, stack, visited, run, prev>>
    /\ UNCHANGED lifetime_collector

\* the mutant starts the walk whatever the loop of the extraction has reached
Instantiate_early ==
    /\ pc = "extract"
    /\ input.inline
    /\ pc' = "walk"
    /\ depth' = 1
    /\ error' = <<>>
    /\ stack' = <<[path |-> <<>>, i |-> 1]>>
    /\ visited' = {<<>>}
    /\ UNCHANGED <<input, fns, mods, idx, tests, mod_wide_generic_arity, result, output,
                   run, prev>>
    /\ UNCHANGED lifetime_collector

\* transform goes on to instantiate, which builds the Instantiator and
\* walks the items of the root module
Instantiate ==
    /\ pc = "extract"
    /\ input.inline
    /\ idx > Len(fns)
    /\ pc' = "walk"
    /\ depth' = 1
    /\ error' = <<>>
    /\ stack' = <<[path |-> <<>>, i |-> 1]>>
    /\ visited' = {<<>>}
    /\ UNCHANGED <<input, fns, mods, idx, tests, mod_wide_generic_arity, result, output,
                   run, prev>>
    /\ UNCHANGED lifetime_collector

Top == stack[Len(stack)]
AtChild == pc = "walk" /\ Top.i <= Len(ItemsAt(mods, Top.path))
ChildPath == Append(Top.path, Top.i)
Child == ItemsAt(mods, Top.path)[Top.i]
Advance == [stack EXCEPT ![Len(stack)].i = @ + 1]

\* visit_item_mod_mut on a module carrying instantiate_tests
VisitMarkedMod ==
    /\ AtChild
    /\ Child.k = "mod"
    /\ has_marker(Child)
    /\ \E r \in {visit_marked_mod(tests.test_fns, depth, error, Child, ChildPath)} :
          /\ mods' = ReplaceAt(mods, ChildPath, r.item)
          /\ error' = r.error
    /\ visited' = visited \cup {ChildPath}
    /\ stack' = Advance
    /\ UNCHANGED <<input, fns, pc, idx, tests, mod_wide_generic_arity, depth, result,
                   output, run, prev>>
    /\ UNCHANGED lifetime_collector

\* the mutant walks into the module and leaves the depth as it is
EnterMod_same_depth ==
    /\ pc = "walk" /\ Top.i <= Len(ItemsAt(mods, Top.path))
    /\ ItemsAt(mods, Top.path)[Top.i].k = "mod"
    /\ ItemsAt(mods, Top.path)[Top.i].attr = "none"
    /\ visited' = visited \cup {Append(Top.path, Top.i)}
    /\ stack' = Append(stack, [path |-> Append(Top.path, Top.i), i |-> 1])
    /\ UNCHANGED <<input, fns, mods, pc, idx, tests, mod_wide_generic_arity, error,
                   result, output, run, prev, depth>>
    /\ UNCHANGED lifetime_collector

\* visit_item_mod_mut on any other module, up to the walk into its items
EnterMod ==
    /\ AtChild
    /\ Child.k = "mod"
    /\ ~has_marker(Child)
    /\ depth' = depth + 1
    /\ visited' = visited \cup {ChildPath}
    /\ stack' = Append(stack, [path |-> ChildPath, i |-> 1])
    /\ UNCHANGED <<input, fns, mods, pc, idx, tests, mod_wide_generic_arity, error,
                   result, output, run, prev>>
    /\ UNCHANGED lifetime_collector

\* the mutant comes back out of the module with the depth it had inside
LeaveMod_keeps_depth ==
    /\ pc = "walk"
    /\ Len(stack) > 1
    /\ Top.i > Len(ItemsAt(mods, Top.path))
    /\ stack' = [SubSeq(stack, 1, Len(stack) - 1) EXCEPT ![Len(stack) - 1].i = @ + 1]
    /\ UNCHANGED <<input, fns, mods, pc, idx, tests, mod_wide_generic_arity, error,
                   visited, result, output, run, prev, depth>>
    /\ UNCHANGED lifetime_collector

\* the walk into the items is over: the rest of visit_item_mod_mut
LeaveMod ==
    /\ pc = "walk"
    /\ Len(stack) > 1
    /\ Top.i > Len(ItemsAt(mods, Top.path))
    /\ depth' = depth - 1
    /\ stack' = [SubSeq(stack, 1, Len(stack) - 1) EXCEPT ![Len(stack) - 1].i = @ + 1]
    /\ UNCHANGED <<input, fns, mods, pc, idx, tests, mod_wide_generic_arity, error,
                   visited, result, output, run, prev>>
    /\ UNCHANGED lifetime_collector

\* the walk is over: instantiate returns, then transform and expand
FinishWalk ==
    /\ pc = "walk"
    /\ Len(stack) = 1
    /\ Top.i > Len(mods)
    /\ pc' = "done"
    /\ result' = IF error = <<>> THEN [state |-> "ok", err |-> <<>>]
                 ELSE [state |-> "err", err |-> error]
    /\ output' = IF error = <<>> THEN [kind |-> "tokens", fns |-> fns, mods |-> mods]
                 ELSE [kind |-> "compile_error", err |-> error]
    /\ UNCHANGED <<input, fns, mods, idx, tests, mod_wide_generic_arity, depth, error,
                   stack, visited, run, prev>>
    /\ UNCHANGED lifetime_collector

\* the generics the carriers are declared with: TestSignatureItem::lifetime_generics
\* of every signature of the catalog
Carriers(sigs) ==
    {[ident |-> sigs[key].ident, generics |-> lifetime_generics(sigs[key].item)] :
        key \in DOMAIN sigs}

\* what a run of the macro shows: the tokens expand returned and, with the
\* rewritten module, the carrier declarations of the catalog
Rendering ==
    [output |-> output,
     input_sigs |-> IF output.kind = "tokens" THEN Carriers(tests.input_sigs) ELSE {},
     return_sigs |-> IF output.kind = "tokens" THEN Carriers(tests.return_sigs) ELSE {}]

\* the compiler runs the macro once more on the same module
Rerun ==
    /\ pc = "done"
    /\ run = 1
    /\ run' = 2
    /\ prev' = Rendering
    /\ fns' = input.fns
    /\ mods' = input.mods
    /\ pc' = "extract"
    /\ idx' = 1
    /\ tests' = DefaultTests
    /\ mod_wide_generic_arity' = -1
    /\ depth' = 1
    /\ error' = <<>>
    /\ stack' = <<>>
    /\ visited' = {}
    /\ result' = Pending
    /\ output' = NoOutput
    /\ UNCHANGED input
    /\ UNCHANGED lifetime_collector

Next ==
    \/ RootNotInline
    \/ TryExtractItem
    \/ Instantiate
    \/ VisitMarkedMod
    \/ EnterMod
    \/ LeaveMod
    \/ FinishWalk

NextSig ==
    \/ Next
    \/ Rerun

NextFns ==
    \/ Define
    \/ Next

\* the walk over every module tree, under a few lists of functions
Spec == Init /\ [][Next]_vars

\* every list of functions, under one module tree; the macro runs twice
SpecSig == InitSig /\ [][NextSig]_vars

\* the macro from its arguments on: attributes, options, qualifiers and
\* types of many kinds, under one module tree
SpecFns == InitFns /\ [][NextFns]_vars

(***************************************************************************)
(* The collector at work on one type.                                      *)
(***************************************************************************)
\* types without a nested binder form: `&str`, `&'a str`, `&'static str`,
\* `Borrowed<'_>`, `Borrowed<'b>`
FlatTypes ==
    {TypeReference(Elided, Str), TypeReference("a", Str), TypeReference(Static, Str),
     Borrowed(Placeholder), Borrowed("b")}

\* the binders written on a form: none, or `for<'a>`
Binders == {<<>>, <<"a">>}

\* the nested binder forms around the type x: `fn(x)`, `fn(i32) -> x`,
\* `dyn Tr<x>` and `dyn Fn(x)`, each without a binder and under `for<'a>`
FormsAround(x) ==
    UNION {{TypeBareFn(b, <<x>>, None),
            TypeBareFn(b, <<I32>>, x),
            TypeTraitObject(<<TraitBound(b, <<Seg("Tr", <<x>>)>>)>>),
            TypeTraitObject(<<TraitBound(b, <<Seg("Fn", <<Parenthesized(<<x>>, None)>>)>>)>>)}
           : b \in Binders}

RECURSIVE Nested(_)
\* the types with forms nested up to n deep
Nested(n) ==
    IF n = 0 THEN FlatTypes
    ELSE Nested(n - 1) \cup UNION {FormsAround(x) : x \in Nested(n - 1)}

\* a form standing after, or before, a reference with the lifetime its
\* binder binds; a trait object with a lifetime bound
BesideTypes ==
    UNION {{TypeTuple(<<TypeReference("a", Str), f>>),
            TypeTuple(<<f, TypeReference("a", Str)>>)}
           : f \in UNION {FormsAround(x) : x \in FlatTypes}}
    \cup {TypeTraitObject(<<TraitBound(<<>>, <<Seg("Tr", <<>>)>>), LifetimeArg("a")>>)}

\* the collectors a type is entered with: every mode, at the top of a
\* signature or inside a form that binds 'b, with 'a collected or not
Collectors ==
    {[NewCollector(m) EXCEPT !.bound_lifetimes = b, !.lifetimes = l] :
        m \in {ModeInput, ModeFail, ModeDisabled, ModeOutput("a"), ModeOutput("c")},
        b \in {{}, {"b"}}, l \in {{}, {"a"}}}

InitTypes ==
    /\ StartAt(NotInlineInput, "idle")
    /\ run = 1
    /\ prev = NoOutput
    /\ \E c \in Collectors, ty \in Nested(MaxNest) \cup BesideTypes :
          lifetime_collector = AtType("entered", c, ty, Visited(c, ty))

\* visit_type_mut on the type, from its call to its return
VisitType ==
    /\ lifetime_collector.at = "entered"
    /\ lifetime_collector' =
          AtType("left", lifetime_collector.entered, lifetime_collector.ty,
                 visit_type_mut(lifetime_collector.entered, lifetime_collector.ty))
    /\ UNCHANGED <<input, fns, mods, pc, idx, tests, mod_wide_generic_arity, depth, error,
                   stack, visited, result, output, run, prev>>

NextTypes ==
    \/ VisitType

\* the collector on every type, entered in every mode
SpecTypes == InitTypes /\ [][NextTypes]_vars

(***************************************************************************)
(* What the properties speak of, read off the input of the run.            *)
(***************************************************************************)
RECURSIVE ModPaths(_)
\* the paths of the modules under the module holding items
ModPaths(items) ==
    UNION {{<<i>>} \cup (IF items[i].inline
                         THEN {<<i>> \o q : q \in ModPaths(items[i].items)}
                         ELSE {})
           : i \in {j \in DOMAIN items : items[j].k = "mod"}}

\* a marker: an empty inline module carrying instantiate_tests
IsMarker(m) == m.k = "mod" /\ m.attr = "outer" /\ m.inline /\ m.items = <<>>
MarkerPaths == {p \in ModPaths(input.mods) : IsMarker(NodeAt(input.mods, p))}

\* the modules above the one at path p carry no instantiate_tests attribute
Plain(p) ==
    \A n \in 1..(Len(p) - 1) : NodeAt(input.mods, SubSeq(p, 1, n)).attr = "none"

\* the functions of the root that carry one of the default test attributes
IsTestCase(f) == \E i \in DOMAIN f.attrs : f.attrs[i].path \in DEFAULT_TEST_ATTRS
RootTestCases == SelectSeq(input.fns, IsTestCase)

\* the functions in the content of a module
FnsOf(items) == SelectSeq(items, LAMBDA it : it.k = "fn")

\* the content holds one forwarding function per test function of the
\* root, in order, each calling its namesake through n `super::` segments
Forwards(items, n) ==
    /\ Len(FnsOf(items)) = Len(RootTestCases)
    /\ \A i \in DOMAIN RootTestCases :
          /\ FnsOf(items)[i].name = RootTestCases[i].ident
          /\ FnsOf(items)[i].call.name = RootTestCases[i].ident
          /\ FnsOf(items)[i].call.supers = n

\* the walk over the modules took place and is over
Walked == pc = "done" /\ <<>> \in visited

\* C1: when the walk is over, every marker that no marked module hides is
\* populated with one forwarding function per test function of the root,
\* each calling its namesake through N `super::` segments, N being the
\* number of modules from the marker's parent up to the root; and in the
\* tree the expansion emits this holds of every marker of the input.
C1_ForwardersAtEveryDepth ==
    /\ Walked =>
          \A p \in MarkerPaths : Plain(p) => Forwards(NodeAt(mods, p).items, Len(p))
    /\ output.kind = "tokens" =>
          \A p \in MarkerPaths : Forwards(NodeAt(output.mods, p).items, Len(p))

\* a tree is emitted in which a marker two modules down and a marker
\* under the root are populated, the root having two test functions
C1_Witness ==
    /\ output.kind = "tokens"
    /\ Len(RootTestCases) = 2
    /\ \E p, q \in MarkerPaths :
          /\ Len(p) = 2 /\ Len(q) = 1
          /\ Len(FnsOf(NodeAt(output.mods, p).items)) = 2
          /\ FnsOf(NodeAt(output.mods, p).items)[2].call.supers = 2
          /\ FnsOf(NodeAt(output.mods, q).items)[1].call.supers = 1

\* the modules carrying a well-formed instantiate_tests attribute that are
\* not inline, or not empty
BadMarkerPaths ==
    {p \in ModPaths(input.mods) :
        /\ NodeAt(input.mods, p).attr = "outer"
        /\ ~IsMarker(NodeAt(input.mods, p))}
MarkerError(p) ==
    Diag(IF NodeAt(input.mods, p).inline
         THEN "module to instantiate tests into must be empty"
         ELSE "module to instantiate tests into must be inline", p)
Siblings(p, q) == Len(p) = Len(q) /\ p # q
                  /\ SubSeq(p, 1, Len(p) - 1) = SubSeq(q, 1, Len(q) - 1)

\* C2: when the walk is over, a module carrying instantiate_tests that is
\* not inline, or not empty, has its error recorded, at the module, and
\* its content is as it was; every marker beside it, before or after, is
\* populated.
C2_BadMarkerIsLocal ==
    Walked =>
       \A p \in BadMarkerPaths : Plain(p) =>
          /\ \E i \in DOMAIN error : error[i] = MarkerError(p)
          /\ NodeAt(mods, p).items = NodeAt(input.mods, p).items
          /\ \A q \in MarkerPaths : Siblings(p, q) =>
                Forwards(NodeAt(mods, q).items, Len(q))

\* a module that is not empty stands between two markers, both populated,
\* and a module that is not inline stands beside a marker
C2_Witness ==
    /\ Walked
    /\ Len(RootTestCases) = 2
    /\ \E p \in BadMarkerPaths, q, r \in MarkerPaths :
          /\ NodeAt(input.mods, p).inline
          /\ Siblings(p, q) /\ Siblings(p, r)
          /\ q[Len(q)] < p[Len(p)] /\ p[Len(p)] < r[Len(r)]
          /\ Len(FnsOf(NodeAt(mods, q).items)) = 2
          /\ Len(FnsOf(NodeAt(mods, r).items)) = 2

RECURSIVE ErrorsFrom(_, _, _)
\* the errors of the modules from the i-th on under the module at path
\* prefix, in the order of the walk
ErrorsOf(m, p) ==
    CASE m.attr = "inner" -> <<Diag("cannot be an inner attribute", p)>>
      [] m.attr = "unparsable" -> <<Diag("attribute arguments do not parse", p)>>
      [] m.attr = "outer" /\ ~m.inline ->
            <<Diag("module to instantiate tests into must be inline", p)>>
      [] m.attr = "outer" /\ m.items # <<>> ->
            <<Diag("module to instantiate tests into must be empty", p)>>
      [] m.attr = "none" /\ m.inline -> ErrorsFrom(m.items, p, 1)
      [] OTHER -> <<>>
ErrorsFrom(items, prefix, i) ==
    IF i > Len(items) THEN <<>>
    ELSE (IF items[i].k = "mod" THEN ErrorsOf(items[i], Append(prefix, i)) ELSE <<>>)
         \o ErrorsFrom(items, prefix, i + 1)
RecordedErrors == ErrorsFrom(input.mods, <<>>, 1)

\* the walk fails with one error carrying every error recorded in it, in the
\* order they were recorded, and succeeds exactly when none was
WalkErrorsKept ==
    Walked =>
       /\ result.err = RecordedErrors
       /\ (result.state = "ok") = (RecordedErrors = <<>>)
       /\ result.state = "err" =>
             output = [kind |-> "compile_error", err |-> RecordedErrors]

\* the run ended in the building of the input signature of fns[idx]
EndedInInputs ==
    /\ pc = "done" /\ input.inline /\ idx <= Len(fns)
    /\ IsTestCase(input.fns[idx])
    /\ validate(fns[idx]) = <<>>
    /\ fns[idx].inputs # <<>>
    /\ fns[idx].inputs \notin DOMAIN tests.input_sigs

\* the errors the collector recorded over the arguments of fns[idx]
CollectorErrors == build_args(NewCollector(ModeInput), fns[idx].inputs).c.errors

\* C3: the errors recorded in a pass, the walk over the modules or the
\* collection of the lifetimes of an argument list, are all carried, in
\* order, by the error the pass fails with; it succeeds when there is none.
C3_NoneDiscarded ==
    /\ WalkErrorsKept
    /\ EndedInInputs =>
          \A i \in DOMAIN CollectorErrors :
             \E j \in DOMAIN result.err : result.err[j] = CollectorErrors[i]

\* C4: when the run is over, every function of the root was looked at: it
\* was reached by the loop and, if it carries a test attribute, the
\* attribute was taken off it, whatever became of the functions before it.
C4_ExtractionGoesOn ==
    pc = "done" /\ input.inline =>
       /\ idx > Len(fns)
       /\ \A i \in DOMAIN fns : ~IsTestCase(fns[i])

\* C5: a run is over only when the walk reached every module that no marked
\* module hides, and it ends with the tree and no error, or with an error
\* and no tree.
C5_FailsOnlyAfterTraversal ==
    pc = "done" =>
       /\ \A p \in ModPaths(input.mods) : Plain(p) => p \in visited
       /\ \/ result.state = "ok" /\ output.kind = "tokens"
          \/ result.state = "err" /\ result.err # <<>> /\ output.kind = "compile_error"

\* C6: the second run of the macro on a module shows what the first showed:
\* the same tokens, the same carriers, the same order of their lifetimes.
C6_SameOnRerun ==
    pc = "done" /\ run = 2 => Rendering = prev

\* the (name, resolved type) pairs of a parameter-list carrier
Shape(sig) == [i \in DOMAIN sig.args |-> <<sig.args[i].ident, sig.args[i].field_ty>>]

\* C7: two extracted test functions whose parameter lists resolve to the same
\* (name, type) pairs reference one and the same carrier.
C7_OneCarrierPerShape ==
    \A i, j \in DOMAIN tests.test_fns :
       LET f == tests.test_fns[i]
           g == tests.test_fns[j]
       IN  (/\ f.inputs # <<>> /\ g.inputs # <<>>
            /\ Shape(tests.input_sigs[f.inputs]) = Shape(tests.input_sigs[g.inputs]))
           => tests.input_sigs[f.inputs].ident = tests.input_sigs[g.inputs].ident

\* a placeholder or an elided reference lifetime is written in the type
Unresolved(ty) == TypeLifetimes(ty) \cap {Placeholder, Elided} # {}

RECURSIVE Resolve(_, _)
\* ty with every placeholder and elided reference lifetime replaced by lt
Resolve(ty, lt) ==
    CASE ty.k = "lifetime" -> LifetimeArg(IF ty.lt = Placeholder THEN lt ELSE ty.lt)
      [] ty.k = "ref" ->
            TypeReference(IF ty.lt \in {Placeholder, Elided} THEN lt ELSE ty.lt,
                          Resolve(ty.elem, lt))
      [] ty.k = "tuple" -> TypeTuple([i \in DOMAIN ty.elems |-> Resolve(ty.elems[i], lt)])
      [] ty.k = "path" ->
            TypePath([i \in DOMAIN ty.segs |->
                        Seg(ty.segs[i].id,
                            [j \in DOMAIN ty.segs[i].args |->
                                Resolve(ty.segs[i].args[j], lt)])])

\* the parameters are one reference with an elided lifetime
OneElidedReference(inputs) ==
    /\ Len(inputs) = 1
    /\ inputs[1].ty.k = "ref"
    /\ inputs[1].ty.lt = Elided
    /\ TypeLifetimes(inputs[1].ty.elem) = {}

\* C8: an extracted test function taking one reference with an elided
\* lifetime and returning a type with a placeholder or elided lifetime has
\* a return carrier whose lifetime is the one synthesized for its parameter.
C8_ReturnUsesOwnInputLifetime ==
    \A i \in DOMAIN tests.test_fns :
       LET f == tests.test_fns[i]
       IN  (OneElidedReference(f.inputs) /\ f.output # None /\ Unresolved(f.output))
           => \A lt \in tests.input_sigs[f.inputs].item.lifetimes :
                 /\ tests.return_sigs[f.output].item.lifetimes = {lt}
                 /\ tests.return_sigs[f.output].ty = Resolve(f.output, lt)

\* the loop is at a test function whose return signature is to be built
BuildsReturn ==
    /\ pc = "extract" /\ input.inline /\ idx <= Len(fns)
    /\ IsTestCase(fns[idx])
    /\ validate(fns[idx]) = <<>>
    /\ input_stage(tests.input_sigs, fns[idx].inputs).ok
    /\ fns[idx].output # None
    /\ fns[idx].output \notin DOMAIN tests.return_sigs

\* the lifetimes of the input signature of the function, once the step is taken
InputLifetimes(item) ==
    IF item.inputs = <<>> THEN {} ELSE tests'.input_sigs[item.inputs].item.lifetimes

AmbiguityMessages ==
    {"lifetime needs to be disambiguated",
     "elided reference lifetime needs to be disambiguated"}

ReturnBuilt(item, ty) ==
    /\ item.output \in DOMAIN tests'.return_sigs
    /\ tests'.return_sigs[item.output].ty = ty

ReturnModeSelected(item) ==
    IF Cardinality(InputLifetimes(item)) = 1
    THEN \A lt \in InputLifetimes(item) : ReturnBuilt(item, Resolve(item.output, lt))
    ELSE IF Unresolved(item.output)
    THEN /\ item.output \notin DOMAIN tests'.return_sigs
         /\ pc' = "done"
         /\ result'.state = "err"
         /\ result'.err # <<>>
         /\ \A i \in DOMAIN result'.err : result'.err[i].msg \in AmbiguityMessages
    ELSE ReturnBuilt(item, item.output)

Arity(f) == Len(SelectSeq(f.generics, LAMBDA g : g.kind # "lifetime"))
TestCaseIndexes == {i \in DOMAIN input.fns : IsTestCase(input.fns[i])}
FirstTestCase == CHOOSE i \in TestCaseIndexes : \A j \in TestCaseIndexes : i <= j
\* the test functions whose count differs from that of the first one
Mismatches ==
    {i \in TestCaseIndexes : Arity(input.fns[i]) # Arity(input.fns[FirstTestCase])}
IsArityError(err) ==
    /\ Len(err) = 1
    /\ err[1].msg = "test function has a different number of generic parameters"

\* C10: extraction succeeds only if all the test functions have the same
\* count of type and const parameters; it fails on the arity check exactly
\* at the first test function whose count differs, once that function is
\* extracted, with an error naming the function, its count and the others'.
C10_ArityCheck ==
    pc = "done" /\ input.inline =>
       /\ result.state = "ok" => Mismatches = {}
       /\ IsArityError(result.err) => Mismatches # {}
       /\ \A k \in Mismatches :
             (\A j \in Mismatches : k <= j) =>
                /\ idx <= k
                /\ (idx = k /\ \E i \in DOMAIN tests.test_fns :
                                   tests.test_fns[i].ident = input.fns[k].ident)
                   => /\ IsArityError(result.err)
                      /\ result.err[1].at = input.fns[k].ident
                      /\ result.err[1].has = Arity(input.fns[k])
                      /\ result.err[1].others = Arity(input.fns[FirstTestCase])
                /\ IsArityError(result.err) => idx = k

\* a function with two parameters after one with a lifetime and a type
\* parameter: the error names the second, 2 and 1
C10_Witness ==
    /\ pc = "done"
    /\ input.fns = <<LifetimeParamFn, TwoParamsFn>>
    /\ IsArityError(result.err)
    /\ result.err[1].at = "two_params"
    /\ result.err[1].has = 2
    /\ result.err[1].others = 1
(***************************************************************************)
(* Attributes.  The sets in effect for a function of the input, and what   *)
(* classification makes of its attributes.                                 *)
(***************************************************************************)
MarkersOf(f) ==
    IF fn_opts(f).inst_attrs.some THEN fn_opts(f).inst_attrs.set ELSE input.opts.inst_attrs
MirroredOf(f) ==
    IF fn_opts(f).copy_attrs.some THEN fn_opts(f).copy_attrs.set ELSE input.opts.copy_attrs
\* by path only
IsMarkerAttr(f, a) == is_ordinary(a) /\ a.path \in MarkersOf(f)
IsMirroredAttr(f, a) == is_ordinary(a) /\ a.path \notin MarkersOf(f) /\ a.path \in MirroredOf(f)
Classified(f) == fn_opts(f).ok /\ \E a \in Range(f.attrs) : IsMarkerAttr(f, a)
Replicated(f) == {a \in Range(f.attrs) : IsMarkerAttr(f, a) \/ IsMirroredAttr(f, a)}
Surviving(f) == {a \in Range(f.attrs) : is_ordinary(a) /\ ~IsMarkerAttr(f, a)}

\* the functions of the root the extraction is past
Extracted_fns == {i \in DOMAIN fns : i < idx}
TestFnsNamed(ident) == {t \in Range(tests.test_fns) : t.ident = ident}
\* the forwarding functions of the name in the marker at path p
ForwardersAt(p, ident) ==
    {g \in Range(NodeAt(mods, p).items) : g.k = "fn" /\ g.name = ident}

\* C11: once a function classified as a test case is extracted, the
\* definition that survives carries its attributes other than the markers,
\* the test function carries its markers and its mirrored attributes and no
\* other, and when the walk is over so does its forwarding function in
\* every marker; what an attribute is depends on its path only.
C11_AttributesClassified ==
    \A i \in Extracted_fns :
       Classified(input.fns[i]) =>
          /\ Range(fns[i].attrs) = Surviving(input.fns[i])
          /\ TestFnsNamed(fns[i].ident) # {}
          /\ \A t \in TestFnsNamed(fns[i].ident) :
                Range(t.test_attrs) = Replicated(input.fns[i])
          /\ Walked =>
                \A p \in MarkerPaths :
                   /\ ForwardersAt(p, fns[i].ident) # {}
                   /\ \A g \in ForwardersAt(p, fns[i].ident) :
                         Range(g.attrs) = Replicated(input.fns[i])

\* `rich` is instantiated under the default sets: `ignore = "reason"` and
\* `test` are on the forwarding function with `cfg(windows)`, and the
\* definition keeps `cfg(windows)` and `allow(dead_code)`
C11_Witness ==
    /\ Walked
    /\ input.args = <<>>
    /\ input.fns = <<PrintFn, RichFn>>
    /\ fns[2].attrs = <<AttrTokens("cfg", "windows"), AttrTokens("allow", "dead_code")>>
    /\ \A p \in MarkerPaths :
          \E g \in ForwardersAt(p, "rich") :
             Range(g.attrs) = {Attr("test"), AttrNameValue("ignore", "reason"),
                               AttrTokens("cfg", "windows")}

\* the run ended with the error of the function at i of the root
FailedAt(i) == from_args(input.args).ok /\ pc = "done" /\ result.state = "err" /\ idx = i

\* C12: a function of the root with no marker attribute keeps its
\* attributes as they are, is not among the test functions, never makes
\* the extraction fail (neither the validation of signatures nor the arity
\* check looks at it), leaves the arity of the unit unset when no test
\* case came before it, and has no forwarding function in any marker.
C12_NotATestCaseUntouched ==
    \A i \in DOMAIN fns :
       (fn_opts(input.fns[i]).ok /\ ~Classified(input.fns[i])) =>
          /\ i < idx => fns[i].attrs = SelectSeq(input.fns[i].attrs, is_ordinary)
          /\ TestFnsNamed(fns[i].ident) = {}
          /\ ~FailedAt(i)
          /\ (idx = i + 1 /\ \A j \in 1..(i - 1) : ~Classified(input.fns[j]))
                => mod_wide_generic_arity = -1
          /\ Walked => \A p \in MarkerPaths : ForwardersAt(p, fns[i].ident) = {}

\* not_a_test_case, with `cfg`, two type parameters and a `_` argument,
\* follows a test case: the unit is instantiated, it keeps its attributes
\* and only `print` has forwarding functions
C12_Witness ==
    /\ Walked
    /\ output.kind = "tokens"
    /\ input.fns = <<PrintFn, NotATestFn>>
    /\ fns[2].attrs = <<Attr("cfg"), Attr("allow")>>
    /\ Len(tests.test_fns) = 1
    /\ \A p \in MarkerPaths :
          ForwardersAt(p, "print") # {} /\ ForwardersAt(p, "not_a_test_case") = {}

\* the lists `name(...)` among the arguments metas, and the paths they list
ListsNamed(metas, name) ==
    {metas[i] : i \in {j \in DOMAIN metas : metas[j].k = "list" /\ metas[j].path = name}}
ListedPaths(metas, name) ==
    UNION {{m.nested[j].path : j \in DOMAIN m.nested} : m \in ListsNamed(metas, name)}
\* the arguments of the generic_test attributes of the function
OverrideArgs(f) ==
    IF SelectSeq(f.attrs, is_override) = <<>> THEN <<>>
    ELSE Head(SelectSeq(f.attrs, is_override)).nested
\* the most specific list given: of the function, else of the unit, else
\* the built-in default
InEffect(f, name, default) ==
    IF ListsNamed(OverrideArgs(f), name) # {} THEN ListedPaths(OverrideArgs(f), name)
    ELSE IF ListsNamed(input.args, name) # {} THEN ListedPaths(input.args, name)
    ELSE default
ExpectedMarkers(f) == InEffect(f, "attrs", {"test", "bench", "ignore", "should_panic"})
ExpectedMirrored(f) == InEffect(f, "copy_attrs", {"cfg"})

\* C13: a function the extraction is past was classified under the most
\* specific marker list and, independently, the most specific mirrored
\* list: it is a test function exactly if an attribute of it is in the
\* marker list in effect, its definition lost the attributes of that list
\* and no other, and the test function carries the attributes of the two
\* lists in effect and no other.  A less specific list plays no part.
C13_MostSpecificListWins ==
    \A i \in Extracted_fns :
       fn_opts(input.fns[i]).ok =>
          /\ Range(fns[i].attrs) =
                {a \in Range(input.fns[i].attrs) :
                    is_ordinary(a) /\ a.path \notin ExpectedMarkers(input.fns[i])}
          /\ TestFnsNamed(fns[i].ident) # {} <=>
                \E a \in Range(input.fns[i].attrs) :
                   is_ordinary(a) /\ a.path \in ExpectedMarkers(input.fns[i])
          /\ \A t \in TestFnsNamed(fns[i].ident) :
                Range(t.test_attrs) =
                   {a \in Range(input.fns[i].attrs) :
                       /\ is_ordinary(a)
                       /\ a.path \in ExpectedMarkers(input.fns[i])
                                     \cup ExpectedMirrored(input.fns[i])}

\* under define(attrs(test, allow), copy_attrs(doc), attrs(ignore)) the
\* function overriding both lists is instantiated: `allow`, a marker of the
\* unit, is mirrored; `ignore`, a marker of the unit and of the default,
\* and `cfg`, mirrored by default, stay on the definition only
C13_Witness ==
    /\ Walked
    /\ ListedPaths(input.args, "attrs") = {"test", "allow", "ignore"}
    /\ input.fns = <<OverrideFn>>
    /\ Len(tests.test_fns) = 1
    /\ fns[1].attrs = <<AttrTokens("allow", "dead_code"), AttrTokens("cfg", "test"),
                        Attr("ignore")>>
    /\ \A t \in Range(tests.test_fns) :
          Range(t.test_attrs) = {Attr("test"), AttrTokens("cfg_attr", "windows, ignore"),
                                 AttrTokens("allow", "dead_code")}

(***************************************************************************)
(* The generic parameters of a function in its signature.                  *)
(***************************************************************************)
RECURSIVE Mentions(_, _)
\* a name of params occurs in the type: alone, at the head of a path,
\* among the generic arguments of a segment, in a qualified self type or
\* in the trait path after it
Mentions(params, ty) ==
    CASE ty.k = "path" ->
            \/ ty.segs[1].id \in params
            \/ \E n \in DOMAIN ty.segs : \E a \in Range(ty.segs[n].args) : Mentions(params, a)
      [] ty.k = "qpath" ->
            \/ Mentions(params, ty.qself)
            \/ \E n \in DOMAIN ty.segs : \E a \in Range(ty.segs[n].args) : Mentions(params, a)
      [] ty.k = "ref" -> Mentions(params, ty.elem)
      [] ty.k = "tuple" -> \E e \in Range(ty.elems) : Mentions(params, e)
      [] OTHER -> FALSE

\* the type and const parameters of the function
OwnParams(f) ==
    {g.name : g \in {h \in Range(f.generics) : h.kind \in {"type", "const"}}}
MentionsOwn(f) ==
    \/ \E a \in Range(f.inputs) : Mentions(OwnParams(f), a.ty)
    \/ f.output # None /\ Mentions(OwnParams(f), f.output)

\* C14: the extraction never gets past a test function whose parameter
\* types or return type mention a type or const parameter of the function,
\* the error it fails with there is the one of the generic parameter, at
\* the identifier of a parameter; and a test function that mentions none,
\* be it with lifetime parameters of its own, never fails with that error.
C14_OwnParametersRejected ==
    \A i \in DOMAIN fns :
       Classified(input.fns[i]) =>
          /\ MentionsOwn(input.fns[i]) => i \notin Extracted_fns
          /\ (MentionsOwn(input.fns[i]) /\ FailedAt(i)) =>
                /\ result.err # <<>>
                /\ \A e \in Range(result.err) :
                      e.msg = ERROR_MSG /\ e.at \in OwnParams(input.fns[i])
          /\ (~MentionsOwn(input.fns[i]) /\ FailedAt(i)) =>
                \A e \in Range(result.err) : e.msg # ERROR_MSG

(***************************************************************************)
(* The forwarding functions.                                               *)
(***************************************************************************)
\* C15: when the walk is over, every forwarding function is `async` and
\* `unsafe` exactly as the generic function of its name is, and its body
\* awaits the call exactly if that function is `async`.
C15_QualifiersMirrored ==
    Walked =>
       \A i \in DOMAIN fns : \A p \in MarkerPaths :
          \A g \in ForwardersAt(p, fns[i].ident) :
             /\ g.asyncness = input.fns[i].asyncness
             /\ g.unsafety = input.fns[i].unsafety
             /\ g.await = input.fns[i].asyncness

\* the items are `use super::*`, then `use super::...::*` up to the root
\* when the module is n > 1 modules down, then forwarding functions only
ImportsFirst(items, n) ==
    /\ items # <<>>
    /\ items[1].k = "use" /\ items[1].supers = 1
    /\ n > 1 => Len(items) >= 2 /\ items[2].k = "use" /\ items[2].supers = n
    /\ \A j \in DOMAIN items : j > (IF n > 1 THEN 2 ELSE 1) => items[j].k = "fn"

\* C16: when the walk is over, every marker that was populated starts with
\* the glob import of its parent; the glob import of the root is its second
\* item when the marker is deeper than directly under the root and is
\* absent otherwise; every item after the imports is a forwarding
\* function.  The same holds of the markers of the tree emitted.
C16_ParentImportFirst ==
    /\ Walked =>
          \A p \in MarkerPaths : Plain(p) => ImportsFirst(NodeAt(mods, p).items, Len(p))
    /\ output.kind = "tokens" =>
          \A p \in MarkerPaths : Plain(p) => ImportsFirst(NodeAt(output.mods, p).items, Len(p))

\* a marker under the root holds one import and then the forwarding
\* functions, a marker one module down holds the two imports before them
C16_Witness ==
    /\ output.kind = "tokens"
    /\ Len(tests.test_fns) = 2
    /\ \E p, q \in MarkerPaths :
          /\ Len(p) = 1 /\ Len(q) = 2
          /\ Len(NodeAt(output.mods, p).items) = 3
          /\ NodeAt(output.mods, p).items[2].k = "fn"
          /\ Len(NodeAt(output.mods, q).items) = 4
          /\ NodeAt(output.mods, q).items[2] = UseRoot(2)
          /\ NodeAt(output.mods, q).items[3].k = "fn"

\* C17: when the walk is over, the attributes of every forwarding function
\* are attributes of the generic function of its name in the order they
\* have there: what is left of that function's attribute list, as written,
\* when the attributes not replicated are taken out.
C17_OriginalOrderKept ==
    Walked =>
       \A i \in DOMAIN fns : \A p \in MarkerPaths :
          \A g \in ForwardersAt(p, fns[i].ident) :
             g.attrs = SelectSeq(input.fns[i].attrs, LAMBDA a : a \in Range(g.attrs))

\* the arguments of the input signature registered for the function
SignatureArgs(f) == tests.input_sigs[f.inputs].args

\* C18: a test function with arguments that the extraction is past has an
\* input signature whose arguments keep the names, the attributes and, as arg_ty, the types
\* as written; and when the walk is over each forwarding function of its
\* name has these arguments in order, each with its name, its type as
\* written and its attributes, and without `mut`.
C18_ParametersAsWritten ==
    \A i \in Extracted_fns :
       (TestFnsNamed(fns[i].ident) # {} /\ fns[i].inputs # <<>>) =>
          /\ fns[i].inputs \in DOMAIN tests.input_sigs
          /\ DOMAIN SignatureArgs(fns[i]) = DOMAIN fns[i].inputs
          /\ \A n \in DOMAIN fns[i].inputs :
                /\ SignatureArgs(fns[i])[n].ident = fns[i].inputs[n].ident
                /\ SignatureArgs(fns[i])[n].arg_ty = fns[i].inputs[n].ty
                /\ SignatureArgs(fns[i])[n].attrs = fns[i].inputs[n].attrs
          /\ Walked =>
                \A p \in MarkerPaths : \A g \in ForwardersAt(p, fns[i].ident) :
                   g.inputs = [n \in DOMAIN fns[i].inputs |->
                                  to_fn_arg(SignatureArgs(fns[i])[n])]

(***************************************************************************)
(* The catalog of carriers.                                                *)
(***************************************************************************)
\* no two entries of the catalog hold carriers of one descriptor: of one
\* list of (name, resolved type) pairs, of one resolved return type
OnePerDescriptor ==
    /\ \A k1, k2 \in DOMAIN tests.input_sigs :
          Shape(tests.input_sigs[k1]) = Shape(tests.input_sigs[k2]) => k1 = k2
    /\ \A k1, k2 \in DOMAIN tests.return_sigs :
          tests.return_sigs[k1].ty = tests.return_sigs[k2].ty => k1 = k2
\* no two carriers of a kind have one name
UniqueNames ==
    /\ \A k1, k2 \in DOMAIN tests.input_sigs :
          tests.input_sigs[k1].ident = tests.input_sigs[k2].ident => k1 = k2
    /\ \A k1, k2 \in DOMAIN tests.return_sigs :
          tests.return_sigs[k1].ident = tests.return_sigs[k2].ident => k1 = k2
\* a step of the extraction at a function whose argument list, or return
\* type, is registered leaves that part of the catalog as it is
Reregistered ==
    (pc = "extract" /\ idx \in DOMAIN fns) =>
       /\ fns[idx].inputs \in DOMAIN tests.input_sigs =>
             tests'.input_sigs = tests.input_sigs
       /\ fns[idx].output \in DOMAIN tests.return_sigs =>
             tests'.return_sigs = tests.return_sigs

\* C19: at every moment each descriptor registered has one carrier and the
\* carriers of a kind have different names; and a step that registers what
\* is registered already leaves the entries, and with them the count the
\* names are taken from, unchanged.
C19_CatalogKeepsOneCarrier ==
    [](OnePerDescriptor /\ UniqueNames) /\ [][Reregistered]_vars

\* the signatures of the catalog, of both kinds
CatalogEntries ==
    {tests.input_sigs[k] : k \in DOMAIN tests.input_sigs}
    \cup {tests.return_sigs[k] : k \in DOMAIN tests.return_sigs}
\* the lifetimes a path segment lists, in order
SegmentLifetimes(seg) == [i \in DOMAIN seg.args |-> seg.args[i].lt]
\* the generic parameter list of the carrier and a path segment that
\* refers to the carrier list the lifetimes of the signature, each once,
\* in one order
SitesAgree ==
    \A e \in CatalogEntries :
       /\ SegmentLifetimes(path_segment(e.item, e.ident)) = lifetime_generics(e.item)
       /\ Range(lifetime_generics(e.item)) = e.item.lifetimes
       /\ Len(lifetime_generics(e.item)) = Cardinality(e.item.lifetimes)
\* within a run of the macro a signature, once in the catalog, is not
\* mutated: its set of lifetimes and the order it is listed in stay
EntriesStable ==
    /\ \A k \in DOMAIN tests.input_sigs \cap DOMAIN tests'.input_sigs :
          tests'.input_sigs[k] = tests.input_sigs[k]
    /\ \A k \in DOMAIN tests.return_sigs \cap DOMAIN tests'.return_sigs :
          tests'.return_sigs[k] = tests.return_sigs[k]

\* C20: at every moment, for each signature of the catalog, the carrier's
\* generic parameter list and a path segment referring to the carrier list
\* the same lifetimes in the same order, and no step changes the signature
\* or that order, so that sites reached at different moments agree.
C20_LifetimeOrderConsistent ==
    []SitesAgree /\ [][EntriesStable]_vars

\* a carrier of two lifetimes listed 'b before 'a, against the order of
\* their names and of their declaration, in both places
C20_Witness ==
    \E e \in CatalogEntries :
       /\ lifetime_generics(e.item) = <<"b", "a">>
       /\ SegmentLifetimes(path_segment(e.item, e.ident)) = <<"b", "a">>

(***************************************************************************)
(* C21: extraction is over before the walk populates a marker.             *)
(***************************************************************************)
\* the place of the n-th item of a kind in the content of the root module
PlaceOf(kind, n) ==
    CHOOSE i \in DOMAIN input.layout :
        /\ input.layout[i] = kind
        /\ Cardinality({j \in 1..i : input.layout[j] = kind}) = n

\* the step fills the module at path p
Populates(p) == NodeAt(mods', p).items # NodeAt(mods, p).items

\* C21: a step that populates a marker is a step of the walk, taken when
\* the loop of the extraction is past the last function of the root and
\* leaving the test-function list and the functions as they are; the
\* marker, wherever it stands among the functions of the root, receives one
\* forwarding function per test function of the root, in the order in
\* which the functions are declared.
C21_ExtractionBeforeWalk ==
    [][\A p \in MarkerPaths : Populates(p) =>
          /\ pc = "walk"
          /\ idx > Len(fns)
          /\ tests' = tests /\ fns' = fns
          /\ Len(tests.test_fns) = Len(RootTestCases)
          /\ Forwards(NodeAt(mods', p).items, Len(p))]_vars

\* the walk is over on a root whose first item is a marker standing before
\* two test functions, and the marker holds the forwarders of both
C21_Witness ==
    /\ Walked
    /\ <<1>> \in MarkerPaths
    /\ Len(RootTestCases) = 2
    /\ PlaceOf("mod", 1) < PlaceOf("fn", 1)
    /\ PlaceOf("mod", 1) < PlaceOf("fn", Len(fns))
    /\ FnsOf(NodeAt(mods, <<1>>).items)[2].name = RootTestCases[2].ident

(***************************************************************************)
(* C22: the depth of the Instantiator.                                     *)
(***************************************************************************)
\* the step walks into a module, comes back out of one, or passes a module
\* by without walking into it
WalksInto == pc = "walk" /\ Len(stack') = Len(stack) + 1
WalksOutOf == pc = "walk" /\ Len(stack') = Len(stack) - 1
PassesBy == pc = "walk" /\ pc' = "walk" /\ Len(stack') = Len(stack)

\* C22: during the walk the depth is not zero and is the number of modules
\* from the one whose items are being walked up to the root, both included;
\* a step into a module is a step into a module without the marker and adds
\* one, the step back out of it takes one off; a step over a module with a
\* marker, whether it is populated, rejected or its arguments do not parse,
\* leaves the depth as it is; when the walk is over the depth is the one it
\* began with.
C22_DepthCountsPath ==
    /\ [](pc = "walk" => depth # 0 /\ depth = Len(stack))
    /\ [](Walked => depth = 1)
    /\ [][/\ WalksInto => ~has_marker(Child) /\ depth' = depth + 1
          /\ WalksOutOf => depth' = depth - 1
          /\ PassesBy => has_marker(Child) /\ depth' = depth]_vars

\* the walk is over, and it went two modules down to a marker whose
\* arguments do not parse, next to nothing else
C22_Witness ==
    /\ Walked
    /\ depth = 1
    /\ \E p \in visited :
          /\ Len(p) = 3
          /\ NodeAt(input.mods, p).attr = "unparsable"
          /\ \E i \in DOMAIN error : error[i].at = p

(***************************************************************************)
(* C23..C26, C28: the collector inside nested binder forms.                *)
(***************************************************************************)
\* the collector is back from the type it entered
Left == lifetime_collector.at = "left"
Entered == lifetime_collector.entered
\* a bare function type, or a trait object (whose bounds bind lifetimes or
\* take parenthesized arguments)
IsForm(ty) == ty.k \in {"bare_fn", "dyn"}

\* C23: when the collector is back from a bare function type or from a
\* trait object, with forms nested inside or not and with errors recorded
\* inside or not, its mode and its bound lifetimes are those it entered the
\* form with.
C23_ScopesRestored ==
    Left /\ IsForm(lifetime_collector.ty) =>
       /\ lifetime_collector.c.subst_mode = Entered.subst_mode
       /\ lifetime_collector.c.bound_lifetimes = Entered.bound_lifetimes

\* `dyn for<'a> Tr<fn(i32) -> &str>`: a form that suspends the mode inside
\* a form that binds
FnInBound ==
    TypeTraitObject(<<TraitBound(<<"a">>, <<Seg("Tr", <<
        TypeBareFn(<<>>, <<I32>>, TypeReference(Elided, Str))>>)>>)>>)
\* `dyn for<'a> Tr<dyn Tr<Borrowed<'_>>>`: a placeholder inside two bounds
PlaceholderInBounds ==
    TypeTraitObject(<<TraitBound(<<"a">>, <<Seg("Tr", <<
        TypeTraitObject(<<TraitBound(<<>>, <<Seg("Tr", <<Borrowed(Placeholder)>>)>>)>>)
    >>)>>)>>)

\* FnInBound is left in Input mode with 'b bound, or PlaceholderInBounds
\* is left with the error of the placeholder recorded
C23_Witness ==
    /\ Left
    /\ Entered.subst_mode = ModeInput
    /\ Entered.bound_lifetimes = {"b"}
    /\ \/ lifetime_collector.ty = FnInBound
       \/ /\ lifetime_collector.ty = PlaceholderInBounds
          /\ Len(lifetime_collector.c.errors) = 1

RECURSIVE FreeNamed(_, _)
RECURSIVE FreeNamedIn(_, _)
\* the lifetimes written by name in a type, 'static aside, at a place where
\* no binder of the type and none of the lifetimes `bound` binds them
FreeNamed(ty, bound) ==
    CASE ty.k = "lifetime" ->
            IF ty.lt \in {Elided, Placeholder, Static} \cup bound THEN {} ELSE {ty.lt}
      [] ty.k = "ref" -> FreeNamed(LifetimeArg(ty.lt), bound) \cup FreeNamed(ty.elem, bound)
      [] ty.k = "path" -> FreeNamedIn(ty.segs, bound)
      [] ty.k = "seg" -> FreeNamedIn(ty.args, bound)
      [] ty.k = "tuple" -> FreeNamedIn(ty.elems, bound)
      [] ty.k = "qpath" -> FreeNamedIn(<<ty.qself>> \o ty.segs, bound)
      [] ty.k = "dyn" -> FreeNamedIn(ty.bounds, bound)
      [] ty.k = "bound" -> FreeNamedIn(ty.segs, bound \cup Range(ty.lifetimes))
      [] ty.k = "paren" -> FreeNamedIn(ty.inputs \o OutputNodes(ty.output), bound)
      [] ty.k = "bare_fn" ->
            FreeNamedIn(ty.inputs \o OutputNodes(ty.output), bound \cup Range(ty.lifetimes))
FreeNamedIn(nodes, bound) ==
    UNION {FreeNamed(nodes[i], bound) : i \in DOMAIN nodes}

\* the collector went through the type in Disabled mode: it entered it so,
\* or the type is a bare function type
WentDisabled ==
    Left /\ (Entered.subst_mode = ModeDisabled \/ lifetime_collector.ty.k = "bare_fn")

\* C24 as stated: in Disabled mode no lifetime position is rewritten and
\* no lifetime, elided, placeholder or named, is added to the lifetime set.
C24_DisabledCollectsNothing ==
    WentDisabled =>
       /\ lifetime_collector.field_ty = lifetime_collector.ty
       /\ lifetime_collector.c.lifetimes = Entered.lifetimes

\* C24, amended: in Disabled mode no lifetime position is rewritten, no
\* name is made for an elided lifetime, a placeholder is neither replaced
\* nor an error, and nothing but the lifetimes written by name is added to
\* the lifetime set: each of them that is not 'static and not bound by a
\* binder around it is added.
C24_DisabledCollectsNamedOnly ==
    WentDisabled =>
       /\ lifetime_collector.field_ty = lifetime_collector.ty
       /\ lifetime_collector.c.errors = Entered.errors
       /\ ~lifetime_collector.c.panicked
       /\ lifetime_collector.c.lifetimes =
             Entered.lifetimes
             \cup FreeNamed(lifetime_collector.ty, Entered.bound_lifetimes)

\* `(&'a str, fn(&str))` in Disabled mode: 'a is collected, the elided
\* lifetime is left alone
C24_Witness ==
    /\ Left
    /\ Entered.subst_mode = ModeDisabled
    /\ Entered.lifetimes = {}
    /\ lifetime_collector.ty =
          TypeTuple(<<TypeReference("a", Str),
                      TypeBareFn(<<>>, <<TypeReference(Elided, Str)>>, None)>>)
    /\ lifetime_collector.field_ty = lifetime_collector.ty
    /\ lifetime_collector.c.lifetimes = {"a"}

\* the names add_elided_lifetime makes
Synthetic == {SynthLifetime(n) : n \in 0..3}

\* the lifetimes the visit added to the set
Collected == lifetime_collector.c.lifetimes \ Entered.lifetimes

\* C26: a lifetime is added to the set only if it is written by name at a
\* place of the type where no binder around it binds it, or is a name made
\* for an elided lifetime, or is the lifetime that Output mode puts in; so
\* a name bound by the `for<..>` of a form is not added for its occurrences
\* inside the form.  Every lifetime written by name at a place where it is
\* not bound, before or after such a form, is in the set.
C26_BoundNotCollected ==
    Left =>
       /\ \A lt \in Collected :
             \/ lt \in FreeNamed(lifetime_collector.ty, Entered.bound_lifetimes)
             \/ lt \in Synthetic
             \/ Entered.subst_mode = ModeOutput(lt)
       /\ FreeNamed(lifetime_collector.ty, Entered.bound_lifetimes)
             \subseteq lifetime_collector.c.lifetimes

\* `for<'a> fn(&'a str)` alone adds nothing to an empty set
BinderOnly == TypeBareFn(<<"a">>, <<TypeReference("a", Str)>>, None)
\* `(dyn for<'a> Tr<&'a str>, &'a str)`: 'a bound in the form, free after it
BinderThenFree ==
    TypeTuple(<<TypeTraitObject(<<TraitBound(<<"a">>,
                    <<Seg("Tr", <<TypeReference("a", Str)>>)>>)>>),
                TypeReference("a", Str)>>)

\* in Input mode with an empty set, the bare function type leaves the set
\* empty, or the tuple leaves it holding 'a alone
C26_Witness ==
    /\ Left
    /\ Entered = NewCollector(ModeInput)
    /\ \/ /\ lifetime_collector.ty = BinderOnly
          /\ lifetime_collector.c.lifetimes = {}
       \/ /\ lifetime_collector.ty = BinderThenFree
          /\ lifetime_collector.c.lifetimes = {"a"}

RECURSIVE OpenPlaceholders(_)
RECURSIVE OpenPlaceholdersIn(_)
\* how many times `'_` is written in a type at a place the collector does
\* not reach in Disabled mode: outside bare function types and outside
\* parenthesized arguments
OpenPlaceholders(ty) ==
    CASE ty.k = "lifetime" -> IF ty.lt = Placeholder THEN 1 ELSE 0
      [] ty.k = "ref" -> OpenPlaceholders(LifetimeArg(ty.lt)) + OpenPlaceholders(ty.elem)
      [] ty.k = "path" -> OpenPlaceholdersIn(ty.segs)
      [] ty.k = "seg" -> OpenPlaceholdersIn(ty.args)
      [] ty.k = "tuple" -> OpenPlaceholdersIn(ty.elems)
      [] ty.k = "qpath" -> OpenPlaceholdersIn(<<ty.qself>> \o ty.segs)
      [] ty.k = "dyn" -> OpenPlaceholdersIn(ty.bounds)
      [] ty.k = "bound" -> OpenPlaceholdersIn(ty.segs)
      [] ty.k \in {"paren", "bare_fn"} -> 0
OpenPlaceholdersIn(nodes) ==
    IF nodes = <<>> THEN 0
    ELSE OpenPlaceholders(Head(nodes)) + OpenPlaceholdersIn(Tail(nodes))

PlaceholderError == Diag("lifetime needs to be disambiguated", Placeholder)
Reported(errors, e) == \E i \in DOMAIN errors : errors[i] = e

\* C28: in Input mode a type with `'_` written outside bare function types
\* and parenthesized arguments comes back with every such `'_` still
\* written and the error "lifetime needs to be disambiguated" recorded, so
\* that validate fails; and the input signature of an argument of that type
\* is not built: try_build returns that error.
C28_PlaceholderInInputFails ==
    Left /\ Entered.subst_mode = ModeInput /\ OpenPlaceholders(lifetime_collector.ty) > 0 =>
       /\ OpenPlaceholders(lifetime_collector.field_ty)
             = OpenPlaceholders(lifetime_collector.ty)
       /\ Reported(lifetime_collector.c.errors, PlaceholderError)
       /\ ~validate_collector(lifetime_collector.c).ok
       /\ \E built \in {TestInputSignature_try_build("_generic_tests_Args0",
                           <<FnArg("a", FALSE, lifetime_collector.ty)>>)} :
             ~built.ok /\ Reported(built.err, PlaceholderError)

\* `a: Borrowed<'_>`: the collector of try_build is back from the type, the
\* type is as written and one error is recorded
C28_Witness ==
    /\ Left
    /\ Entered = NewCollector(ModeInput)
    /\ lifetime_collector.ty = Borrowed(Placeholder)
    /\ lifetime_collector.field_ty = Borrowed(Placeholder)
    /\ lifetime_collector.c.errors = <<PlaceholderError>>

(***************************************************************************)
(* C25: the names made for elided lifetimes.                               *)
(***************************************************************************)
RECURSIVE MintedIn(_, _)
RECURSIVE MintedInAll(_, _)
\* the lifetimes that stand in field_ty where ty has a reference without a
\* lifetime, place by place
MintedIn(ty, field_ty) ==
    CASE ty.k = "ref" ->
            (IF ty.lt = Elided THEN <<field_ty.lt>> ELSE <<>>)
            \o MintedIn(ty.elem, field_ty.elem)
      [] ty.k = "tuple" -> MintedInAll(ty.elems, field_ty.elems)
      [] ty.k = "path" -> MintedInAll(ty.segs, field_ty.segs)
      [] ty.k = "seg" -> MintedInAll(ty.args, field_ty.args)
      [] OTHER -> <<>>
MintedInAll(nodes, field_nodes) ==
    IF nodes = <<>> THEN <<>>
    ELSE MintedIn(Head(nodes), Head(field_nodes))
         \o MintedInAll(Tail(nodes), Tail(field_nodes))

\* the names made for the i-th argument of the argument list `key` of the catalog
MintedFor(key, i) == MintedIn(key[i].ty, tests.input_sigs[key].args[i].field_ty)
\* the lifetime names the author wrote in the unit: declared by a function
\* or written in an argument type or a return type
AuthorWritten ==
    UNION {{f.generics[g].name : g \in {h \in DOMAIN f.generics :
                                           f.generics[h].kind = "lifetime"}}
           \cup FreeNamedIn([i \in DOMAIN f.inputs |-> f.inputs[i].ty], {})
           \cup FreeNamedIn(OutputNodes(f.output), {})
           : f \in Range(input.fns)}

\* every reference without a lifetime has a made name, which is in the
\* set of the signature
EveryElidedNamed ==
    \A key \in DOMAIN tests.input_sigs : \A i \in DOMAIN key :
       \A j \in DOMAIN MintedFor(key, i) :
          /\ MintedFor(key, i)[j] \in Synthetic
          /\ MintedFor(key, i)[j] \in tests.input_sigs[key].item.lifetimes
\* a made name is made once in the unit and is no name the author wrote
MintedOnce ==
    \A key \in DOMAIN tests.input_sigs : \A i \in DOMAIN key :
       \A j \in DOMAIN MintedFor(key, i) :
          /\ MintedFor(key, i)[j] \notin AuthorWritten
          /\ \A key2 \in DOMAIN tests.input_sigs : \A i2 \in DOMAIN key2 :
                \A j2 \in DOMAIN MintedFor(key2, i2) :
                   <<key, i, j>> # <<key2, i2, j2>> =>
                      MintedFor(key, i)[j] # MintedFor(key2, i2)[j2]
\* the lifetimes written by name are in the set as written
NamedAsWritten ==
    \A key \in DOMAIN tests.input_sigs :
       FreeNamedIn([i \in DOMAIN key |-> key[i].ty], {})
          \subseteq tests.input_sigs[key].item.lifetimes
\* 'static is not in the set and stands where it stood
StaticLeftAlone ==
    \A key \in DOMAIN tests.input_sigs :
       /\ Static \notin tests.input_sigs[key].item.lifetimes
       /\ \A i \in DOMAIN key :
             key[i].ty.k = "ref" /\ key[i].ty.lt = Static =>
                tests.input_sigs[key].args[i].field_ty = key[i].ty

\* C25: in every parameter-list signature of the catalog, every reference
\* written without a lifetime has a made name that is in the signature's
\* lifetime set, that name is made at no other place of the unit and is no
\* name the author wrote anywhere in the unit; every lifetime written by
\* name is in the set as written; 'static is not in the set and is not
\* rewritten.
C25_SyntheticNamesUnique ==
    /\ EveryElidedNamed
    /\ MintedOnce
    /\ NamedAsWritten
    /\ StaticLeftAlone

(***************************************************************************)
(* C27: the lifetimes of the carriers of a test function.                  *)
(***************************************************************************)
\* the lifetime sets of the carriers the test function refers to
InputCarrierLifetimes(t) ==
    IF t.inputs = <<>> THEN {} ELSE tests.input_sigs[t.inputs].item.lifetimes
ReturnCarrierLifetimes(t) ==
    IF t.output = None THEN {} ELSE tests.return_sigs[t.output].item.lifetimes
CarrierLifetimes(t) == InputCarrierLifetimes(t) \cup ReturnCarrierLifetimes(t)

\* the lifetimes the function of that name declares as parameters, in order
LifetimeNames(generics) ==
    [i \in DOMAIN SelectSeq(generics, LAMBDA g : g.kind = "lifetime") |->
        SelectSeq(generics, LAMBDA g : g.kind = "lifetime")[i].name]
DeclaredBy(t) ==
    LifetimeNames(Only({f.generics : f \in {g \in Range(input.fns) : g.ident = t.ident}}))

\* C27: for every test function of the list, each lifetime of the carrier
\* of its parameter list and of the carrier of its return type is a
\* lifetime parameter the function declares, or a name made for its own
\* parameter list; and its lifetime_params are the declared lifetime
\* parameters that the carriers use, in the order of the declaration.
C27_CarrierLifetimesOwn ==
    \A n \in DOMAIN tests.test_fns :
       /\ \A lt \in CarrierLifetimes(tests.test_fns[n]) :
             \/ lt \in Range(DeclaredBy(tests.test_fns[n]))
             \/ lt \in Synthetic /\ lt \in InputCarrierLifetimes(tests.test_fns[n])
       /\ tests.test_fns[n].lifetime_params =
             SelectSeq(DeclaredBy(tests.test_fns[n]),
                       LAMBDA lt : lt \in CarrierLifetimes(tests.test_fns[n]))

=============================================================================
